---- MODULE Spec2Model ----
(***************************************************************************)
(* Execution / resilience runtime of the Intake repository:                *)
(*   core/retry.py                 retry_async, retry_sync                 *)
(*   market_research/resilience.py CircuitBreaker, BulkheadExecutor        *)
(*   graphs/switch6_graph.py       the per-stage CircuitBreaker            *)
(*   agents/orchestrator/agent.py  OrchestratorAgent                       *)
(*   core/hitl.py                  HITLRequest, InMemoryHITLQueue          *)
(*   utils/base_agent.py           BaseAgent.execute                       *)
(*   core/context.py               AgentContextManager, AgentContext.child *)
(* Each component has its own specification (SpecRetry, SpecBreaker, ...)  *)
(* over the shared variables; a component's specification leaves the       *)
(* other components' variables unchanged.                                  *)
(***************************************************************************)
EXTENDS Integers, Sequences, FiniteSets, TLC

VARIABLES
    \* ---- core/retry.py : one call of retry_async / retry_sync
    r_mode,        \* "async" (retry_async) or "sync" (retry_sync)
    policy,        \* the RetryPolicy in force
    attempt,       \* the loop variable of `for attempt in range(1, attempts+1)`
    last_error,    \* last_error, None before the first failure
    r_pc,          \* "calling" | "sleeping" | "returned" | "raised"
    r_calls,       \* number of invocations of func so far
    r_raised,      \* the errors func raised, in order (one per failed invocation)
    r_slept,       \* the delays slept, in order
    r_escaped,     \* the exception that left retry_*, None if none did
    \* ---- market_research/resilience.py : one shared CircuitBreaker and the
    \*      tasks that call its run() concurrently
    breaker,       \* the object: _failure_threshold, _recovery_timeout,
                   \*   _failure_count, _state, _opened_at
    now,           \* time.time()
    cb_pc,         \* per task: "idle" | "in_op" | "refused" | "returned" | "raised"
    cb_op,         \* per task: what the coroutine of its current call does
    cb_seen,       \* per task: the _state its allow() found, "none" outside a call
    cb_out,        \* per task: what its last run() returned or raised
    cb_calls,      \* number of run() calls made so far
    cb_ops,        \* number of times coro_factory() was invoked
    cb_log,        \* the outcomes recorded so far, in order
    cb_tripped_at, \* when the breaker last went open (NoTime once promoted)
    \* ---- graphs/switch6_graph.py : the CircuitBreaker of one stage, used by the
    \*      stage's node (can_execute, then the work, then record_*)
    stage_breaker, \* failure_threshold, recovery_timeout, failure_count,
                   \*   last_failure_time, state
    s6_now,        \* time.time()
    s6_last,       \* what the node's last execution did with the breaker
    s6_tripped_at, \* when the stage breaker last went open (NoTime once promoted)
    \* ---- market_research/resilience.py : one shared BulkheadExecutor
    max_concurrency, \* the argument of the constructor
    sem_value,     \* self._sem._value: free slots
    sem_waiters,   \* self._sem._waiters: the callers suspended in acquire(), FIFO
    bh_pc,         \* per caller: "idle" | "waiting" | "woken" | "running" |
                   \*   "returned" | "raised"
    bh_via,        \* per caller: entered through "run" or through "slot"
    bh_waited,     \* per caller: its current call had to wait for a slot
    bh_runs,       \* number of calls started
    bh_done,       \* number of calls finished
    \* ---- agents/orchestrator/agent.py : one call of OrchestratorAgent.run
    o_steps,       \* input_data["workflow"]: per step, what its agent does
    o_parallel,    \* input_data["parallel"]
    o_pc,          \* "start" | "sequential" | "parallel" | "returned" | "raised"
    o_index,       \* the position of _run_sequential's loop (1-based)
    o_results,     \* the list _run_sequential / _run_parallel returns
    o_invoked,     \* the positions whose agent class was called, in order
    o_child,       \* parallel mode, per position: the task of its _invoke_agent,
                   \*   "pending" | "executing" | "done" | "raised"
    o_entry,       \* parallel mode, per position: the entry its task returned
    \* ---- core/hitl.py : one InMemoryHITLQueue
    h_requests,    \* self._requests: request_id -> the stored HITLRequest
    h_now,         \* datetime.now(timezone.utc), advancing with every call
    h_last,        \* the last call made on the queue and how it ended
    \* ---- utils/base_agent.py : one call of BaseAgent.execute, whose retrier is
    \*      the retry_async call above and whose queue is the queue above
    a_payload,     \* what kind of input_payload the caller passed
    a_request_id,  \* the request_id of the (coerced) input
    a_name,        \* self.agent_name
    a_queue,       \* self.hitl_queue: "none" or "memory"
    a_pc,          \* "idle" | "start" | "retrying" | "returned" | "raised"
    a_events,      \* the names passed to emit_event, in order
    a_captured,    \* the errors passed to capture_exception, in order
    a_error,       \* the exception that left execute, None if none did
    a_value,       \* what the last invocation of run returned
    a_result,      \* what execute returned
    \* ---- a sequential workflow run end to end: OrchestratorAgent.run above, each
    \*      child being the execute call above with the retrier above
    e_scripts,     \* per step: what its agent's run() does at each invocation
    e_calls,       \* per finished step: how often its agent's run() was invoked
    \* ---- core/context.py : the ambient context of one task and the
    \*      AgentContextManager scopes open in it
    c_outer,       \* what _CURRENT_CONTEXT held before the first scope was entered
    c_current,     \* _CURRENT_CONTEXT.get()
    c_stack,       \* the open scopes, innermost last: the manager's _context and
                   \*   the old value its _token restores
    c_last,        \* how the last scope was left, "enter" after an entry
    \* ---- core/context.py : the contexts derived from one root by child()
    t_nodes,       \* per context: its fields and the index of its parent (0: root)
    \* ---- graphs/switch6_graph.py : runs of the six-stage graph
    p_deps,        \* Switch6Dependencies.circuit_breakers, one breaker per stage
    p_now,         \* time.time()
    p_runs,        \* runs started so far
    p_pc,          \* "idle" | "running" | "returned"
    p_next,        \* index of the node the graph runs next (7: END)
    p_data,        \* business_data is non-empty
    p_errors,      \* state["errors"]
    p_retry_count, \* state["retry_count"], 0 where the key is absent
    p_complete,    \* state["execution_complete"]
    p_valid,       \* state["<stage>_valid"]
    p_results,     \* state["<stage>_results"], NoResult where absent
    p_invoked,     \* the engine's stage functions called in this run, in order
    p_outcomes,    \* per stage: how its node ended in this run, "none" before
    p_result,      \* what run_switch6_workflow returned
    \* ---- core/hitl.py : concurrent calls on one InMemoryHITLQueue
    q_pc,          \* per task: "idle" | "waiting" | "locked" | "leaving" | "done"
    q_call,        \* per task: the call it makes
    q_out,         \* per task: what its call gave it
    q_running,     \* the task the event loop is running, NoTask between tasks
    q_lock,        \* the task holding self._lock, NoTask when it is free
    q_waiters,     \* the tasks suspended in acquire(), in FIFO order
    q_order,       \* the tasks in the order their blocks under the lock ran
    \* ---- market_research/fetchers.py : concurrent RequestsFetcher.fetch calls
    f_breaker,     \* self._circuit_breaker
    f_sem,         \* free slots of self._bulkhead's semaphore
    f_waiters,     \* the tasks suspended in the semaphore's acquire(), FIFO
    f_pc,          \* per task: "idle" | "refused" | "waiting" | "running" | "returned" | "raised"
    f_now,         \* time.time()
    f_starts,      \* the starts of _call so far, with the breaker as it then was
    \* ---- agents/orchestrator/agent.py : the ambient context during _run_parallel
    x_orch,        \* the context the orchestrator's execute bound
    x_pc,          \* "before" | "gathering" | "after"
    x_cvar,        \* per task's Context: the value of _CURRENT_CONTEXT in it
    x_child,       \* per child: "none" | "created" | "entered" | "exited"
    x_token,       \* per child: the token its AgentContextManager holds
    x_seen         \* per child: what current_agent_context() returned inside its run

retryVars == <<r_mode, policy, attempt, last_error, r_pc, r_calls, r_raised, r_slept, r_escaped>>

breakerVars == <<breaker, now, cb_pc, cb_op, cb_seen, cb_out, cb_calls, cb_ops, cb_log, cb_tripped_at>>

stageBreakerVars == <<stage_breaker, s6_now, s6_last, s6_tripped_at>>

bulkheadVars == <<max_concurrency, sem_value, sem_waiters, bh_pc, bh_via, bh_waited, bh_runs, bh_done>>

orchVars == <<o_steps, o_parallel, o_pc, o_index, o_results, o_invoked, o_child, o_entry>>

hitlVars == <<h_requests, h_now, h_last>>

agentVars == <<a_payload, a_request_id, a_name, a_queue, a_pc, a_events, a_captured,
               a_error, a_value, a_result>>

e2eVars == <<e_scripts, e_calls>>

contextVars == <<c_outer, c_current, c_stack, c_last>>

treeVars == <<t_nodes>>

pipeVars == <<p_deps, p_now, p_runs, p_pc, p_next, p_data, p_errors, p_retry_count, p_complete,
              p_valid, p_results, p_invoked, p_outcomes, p_result>>

queueVars == <<q_pc, q_call, q_out, q_running, q_lock, q_waiters, q_order>>

fetcherVars == <<f_breaker, f_sem, f_waiters, f_pc, f_now, f_starts>>

fanoutVars == <<x_orch, x_pc, x_cvar, x_child, x_token, x_seen>>

vars == <<retryVars, breakerVars, stageBreakerVars, bulkheadVars, orchVars, hitlVars, agentVars,
          e2eVars,
          contextVars,
          treeVars,
          pipeVars,
          queueVars,
          fetcherVars,
          fanoutVars>>

\* "no exception": the value of last_error before any failure.
None == [cls |-> "None", retryable |-> FALSE, id |-> 0]

(***************************************************************************)
(* core/errors.py: the exception classes and their constructor defaults.   *)
(***************************************************************************)
AgentErrorClasses ==
    {"AgentError", "ConfigurationError", "ValidationError", "AuthenticationError",
     "AuthorizationError", "RateLimitError", "ExternalServiceError",
     "HumanInputRequiredError", "RetryableAgentError"}

\* Exceptions outside the taxonomy that business logic raises.
ForeignClasses == {"TimeoutError", "RuntimeError"}

ExceptionClasses == AgentErrorClasses \cup ForeignClasses \cup {"Exception"}

\* The base class of a class ("Exception" is the root of what `except Exception` sees).
BaseOf(c) ==
    IF c = "Exception" THEN "Exception"
    ELSE IF c = "AgentError" THEN "Exception"
    ELSE IF c \in AgentErrorClasses THEN "AgentError"
    ELSE "Exception"

\* The classes an instance of c is an instance of (its method resolution order).
Mro(c) == {c, BaseOf(c), BaseOf(BaseOf(c))}

\* isinstance(error, classes) for a tuple of classes.
IsInstance(error, classes) == Mro(error.cls) \cap classes # {}

\* The `retryable` attribute each constructor sets; ExternalServiceError takes it
\* as an argument, a foreign exception has no such attribute (getattr default False).
RetryableFlags(c) ==
    CASE c \in {"RateLimitError", "RetryableAgentError"} -> {TRUE}
      [] c = "ExternalServiceError" -> {TRUE, FALSE}
      [] OTHER -> {FALSE}

\* The exceptions an operation may raise: a class and the instance's retryable flag.
Raisable ==
    UNION {{[cls |-> c, retryable |-> f] : f \in RetryableFlags(c)} : c \in ExceptionClasses}

\* The five kinds the taxonomy calls non-retryable.
NonRetryableKinds ==
    {"ConfigurationError", "ValidationError", "AuthenticationError",
     "AuthorizationError", "HumanInputRequiredError"}

(***************************************************************************)
(* core/retry.py                                                           *)
(***************************************************************************)
MaxAttempts == 3

DefaultRetryExceptions == {"RetryableAgentError"}
DefaultNonRetryable == {"ValidationError"}

\* The allow-lists (retry_exceptions) and deny-lists (non_retryable_exceptions)
\* the policies of the model are built from; the first of each is the default.
AllowLists ==
    {DefaultRetryExceptions, {}, {"AgentError"}, {"Exception"},
     {"RetryableAgentError", "ValidationError"},
     {"RateLimitError", "ExternalServiceError", "RetryableAgentError", "TimeoutError"}}

DenyLists == {DefaultNonRetryable, {}, {"RetryableAgentError"}, {"AgentError"}}

RetryPolicy ==
    [attempts : 0..MaxAttempts,
     base_delay : {1}, backoff_factor : {2}, max_delay : {3},
     jitter : {<<0, 0>>},
     retry_exceptions : AllowLists,
     non_retryable_exceptions : DenyLists]

should_retry_allow_first(error, p) ==
    IF p.retry_exceptions # {} /\ IsInstance(error, p.retry_exceptions) THEN TRUE
    ELSE IF IsInstance(error, p.non_retryable_exceptions) THEN FALSE
    ELSE IsInstance(error, {"AgentError"}) /\ error.retryable

\* _should_retry: the deny-list first, then the allow-list (the instance's own
\* retryable flag only when no allow-list is configured).
should_retry(error, p) ==
    IF IsInstance(error, p.non_retryable_exceptions) THEN FALSE
    ELSE IF p.retry_exceptions = {}
         THEN IsInstance(error, {"AgentError"}) /\ error.retryable
         ELSE IsInstance(error, p.retry_exceptions)

RECURSIVE Pow(_, _)
Pow(b, e) == IF e = 0 THEN 1 ELSE b * Pow(b, e - 1)

Min(a, b) == IF a <= b THEN a ELSE b

\* The delays _compute_delay may return (one value unless jitter is set).
compute_delay(n, p) ==
    LET delay == Min(p.base_delay * Pow(p.backoff_factor, n - 1), p.max_delay)
    IN  IF p.jitter # <<0, 0>>
        THEN {delay + j : j \in p.jitter[1]..p.jitter[2]}
        ELSE {delay}

RetryInit ==
    /\ r_mode \in {"async", "sync"}
    /\ policy \in RetryPolicy
    /\ attempt = 1
    /\ last_error = None
    /\ r_pc = "calling"
    /\ r_calls = 0
    /\ r_raised = <<>>
    /\ r_slept = <<>>
    /\ r_escaped = None

GivesUpOffByOne(n, exc, p) == n = p.attempts + 1 \/ ~should_retry(exc, p)

GivesUpOnlyWhenExhausted(n, exc, p) == n = p.attempts

GivesUpAtOnce(n, exc, p) == TRUE

\* Whether the loop leaves through `raise` after a failure of this attempt.
GivesUp(n, exc, p) == n = p.attempts \/ ~should_retry(exc, p)

\* One iteration of the loop whose func returns: `return await func(...)`.
FuncReturns ==
    /\ r_pc = "calling"
    /\ attempt <= policy.attempts
    /\ r_calls' = r_calls + 1
    /\ r_pc' = "returned"
    /\ UNCHANGED <<r_mode, policy, attempt, last_error, r_raised, r_slept, r_escaped>>

\* One iteration whose func raises e: the except clause up to the sleep.
FuncRaises(e) ==
    LET exc == [cls |-> e.cls, retryable |-> e.retryable, id |-> r_calls + 1]
    IN  /\ r_pc = "calling"
        /\ attempt <= policy.attempts
        /\ r_calls' = r_calls + 1
        /\ r_raised' = Append(r_raised, exc)
        /\ last_error' = exc
        /\ IF GivesUp(attempt, exc, policy)
           THEN /\ r_pc' = "raised"
                /\ r_escaped' = exc
                /\ r_slept' = r_slept
           ELSE /\ r_pc' = "sleeping"
                /\ r_escaped' = r_escaped
                /\ \E d \in compute_delay(attempt, policy) : r_slept' = Append(r_slept, d)
        /\ UNCHANGED <<r_mode, policy, attempt>>

\* The backoff wait is over: the loop goes to its next iteration.
SleepDone ==
    /\ r_pc = "sleeping"
    /\ attempt' = attempt + 1
    /\ r_pc' = "calling"
    /\ UNCHANGED <<r_mode, policy, last_error, r_calls, r_raised, r_slept, r_escaped>>

\* The code after the loop, reached only when range(1, attempts + 1) is empty.
LoopExhausted ==
    /\ r_pc = "calling"
    /\ attempt > policy.attempts
    /\ r_pc' = "raised"
    /\ r_escaped' = IF last_error # None THEN last_error
                    ELSE [cls |-> "RuntimeError", retryable |-> FALSE, id |-> 0]
    /\ UNCHANGED <<r_mode, policy, attempt, last_error, r_calls, r_raised, r_slept>>

retry_async ==
    /\ r_mode = "async"
    /\ \/ FuncReturns
       \/ \E e \in Raisable : FuncRaises(e)
       \/ SleepDone
       \/ LoopExhausted

retry_sync ==
    /\ r_mode = "sync"
    /\ \/ FuncReturns
       \/ \E e \in Raisable : FuncRaises(e)
       \/ SleepDone
       \/ LoopExhausted

\* The retrier as the other components' specifications leave it.
RetryIdle ==
    /\ r_mode = "async"
    /\ policy = [attempts |-> 3, base_delay |-> 1, backoff_factor |-> 2, max_delay |-> 3,
                 jitter |-> <<0, 0>>, retry_exceptions |-> DefaultRetryExceptions,
                 non_retryable_exceptions |-> DefaultNonRetryable]
    /\ attempt = 1
    /\ last_error = None
    /\ r_pc = "calling"
    /\ r_calls = 0
    /\ r_raised = <<>>
    /\ r_slept = <<>>
    /\ r_escaped = None

(***************************************************************************)
(* market_research/resilience.py: CircuitBreaker                           *)
(***************************************************************************)
NumTasks == 2
MaxThreshold == 2
MaxTimeout == 2
MaxTime == 2
MaxCalls == 3

Tasks == 1..NumTasks

\* _opened_at = None
NoTime == -1

CircuitBreaker(threshold, timeout) ==
    [failure_threshold |-> threshold, recovery_timeout |-> timeout,
     failure_count |-> 0, state |-> "closed", opened_at |-> NoTime]

\* record_success that leaves the counter alone.
record_success_keeps_count(b) == [b EXCEPT !.state = "closed", !.opened_at = NoTime]

record_success(b) ==
    [b EXCEPT !.failure_count = 0, !.state = "closed", !.opened_at = NoTime]

record_failure_no_restamp(b, t) ==
    LET n == b.failure_count + 1
    IN  IF n >= b.failure_threshold
        THEN [b EXCEPT !.failure_count = n, !.state = "open",
                       !.opened_at = IF b.state = "closed" THEN t ELSE b.opened_at]
        ELSE [b EXCEPT !.failure_count = n]

record_failure_keeps_count(b, t) ==
    IF b.failure_count >= b.failure_threshold
    THEN [b EXCEPT !.state = "open", !.opened_at = t]
    ELSE [b EXCEPT !.failure_count = b.failure_count + 1]

record_failure(b, t) ==
    LET n == b.failure_count + 1
    IN  IF n >= b.failure_threshold
        THEN [b EXCEPT !.failure_count = n, !.state = "open", !.opened_at = t]
        ELSE [b EXCEPT !.failure_count = n]

\* allow() at time t: the value returned and the breaker afterwards.
allow(b, t) ==
    IF b.state = "closed" THEN [ok |-> TRUE, b |-> b]
    ELSE IF t - b.opened_at >= b.recovery_timeout
         THEN [ok |-> TRUE, b |-> [b EXCEPT !.state = "half_open"]]
         ELSE [ok |-> FALSE, b |-> b]

\* What a guarded coroutine does: return a value or raise an exception of its own
\* (which may itself be a CircuitBreakerOpen of some inner breaker).
OpBehaviours ==
    {[kind |-> "return", val |-> "result", cls |-> "None", origin |-> "op"],
     [kind |-> "raise", val |-> "None", cls |-> "RuntimeError", origin |-> "op"],
     [kind |-> "raise", val |-> "None", cls |-> "CircuitBreakerOpen", origin |-> "op"]}

NoOp == [kind |-> "none", val |-> "None", cls |-> "None", origin |-> "none"]

\* The CircuitBreakerOpen that run() itself raises.
BreakerOpenError == [kind |-> "raise", val |-> "None", cls |-> "CircuitBreakerOpen", origin |-> "breaker"]

BreakerConfigured(threshold, timeout) ==
    /\ breaker = CircuitBreaker(threshold, timeout)
    /\ now = 0
    /\ cb_pc = [t \in Tasks |-> "idle"]
    /\ cb_op = [t \in Tasks |-> NoOp]
    /\ cb_seen = [t \in Tasks |-> "none"]
    /\ cb_out = [t \in Tasks |-> NoOp]
    /\ cb_calls = 0
    /\ cb_ops = 0
    /\ cb_log = <<>>
    /\ cb_tripped_at = NoTime

BreakerInit ==
    \E threshold \in 1..MaxThreshold, timeout \in 1..MaxTimeout :
        BreakerConfigured(threshold, timeout)

\* The breaker as the other components' specifications leave it.
BreakerIdle == BreakerConfigured(1, 1)

\* run(), up to the await: allow() refuses and run raises CircuitBreakerOpen, or
\* allow() admits and coro_factory() is invoked.
RunAllow(t) ==
    LET a == allow(breaker, now)
    IN  /\ cb_pc[t] # "in_op"
        /\ cb_calls < MaxCalls
        /\ cb_calls' = cb_calls + 1
        /\ breaker' = a.b
        /\ cb_seen' = [cb_seen EXCEPT ![t] = breaker.state]
        /\ cb_tripped_at' = IF a.b.state = "half_open" THEN NoTime ELSE cb_tripped_at
        /\ IF a.ok
           THEN /\ cb_pc' = [cb_pc EXCEPT ![t] = "in_op"]
                /\ \E o \in OpBehaviours : cb_op' = [cb_op EXCEPT ![t] = o]
                /\ cb_ops' = cb_ops + 1
                /\ cb_out' = [cb_out EXCEPT ![t] = NoOp]
           ELSE /\ cb_pc' = [cb_pc EXCEPT ![t] = "refused"]
                /\ cb_op' = [cb_op EXCEPT ![t] = NoOp]
                /\ cb_ops' = cb_ops
                /\ cb_out' = [cb_out EXCEPT ![t] = BreakerOpenError]
        /\ UNCHANGED <<now, cb_log>>

\* run(), the else clause: the awaited coroutine returned.
RunOpReturns(t) ==
    /\ cb_pc[t] = "in_op"
    /\ cb_op[t].kind = "return"
    /\ breaker' = record_success(breaker)
    /\ cb_log' = Append(cb_log, [o |-> "S", was |-> breaker.state])
    /\ cb_pc' = [cb_pc EXCEPT ![t] = "returned"]
    /\ cb_out' = [cb_out EXCEPT ![t] = cb_op[t]]
    /\ UNCHANGED <<now, cb_op, cb_seen, cb_calls, cb_ops, cb_tripped_at>>

\* run(), the except clause: the awaited coroutine raised.
RunOpRaises(t) ==
    /\ cb_pc[t] = "in_op"
    /\ cb_op[t].kind = "raise"
    /\ breaker' = record_failure(breaker, now)
    /\ cb_log' = Append(cb_log, [o |-> "F", was |-> breaker.state])
    /\ cb_tripped_at' = IF breaker.state # "open" /\ breaker'.state = "open"
                        THEN now ELSE cb_tripped_at
    /\ cb_pc' = [cb_pc EXCEPT ![t] = "raised"]
    /\ cb_out' = [cb_out EXCEPT ![t] = cb_op[t]]
    /\ UNCHANGED <<now, cb_op, cb_seen, cb_calls, cb_ops>>

\* Time passes.
Tick ==
    /\ now < MaxTime
    /\ now' = now + 1
    /\ UNCHANGED <<breaker, cb_pc, cb_op, cb_seen, cb_out, cb_calls, cb_ops, cb_log, cb_tripped_at>>

(***************************************************************************)
(* graphs/switch6_graph.py: the per-stage CircuitBreaker                   *)
(***************************************************************************)
StageCircuitBreaker(threshold, timeout) ==
    [failure_threshold |-> threshold, recovery_timeout |-> timeout,
     failure_count |-> 0, last_failure_time |-> NoTime, state |-> "closed"]

\* can_execute() at time t: the value returned and the breaker afterwards
\* (`last_failure_time or 0` reads an unset time as 0).
s6_can_execute(b, t) ==
    IF b.state = "closed" THEN [ok |-> TRUE, b |-> b]
    ELSE IF b.state = "open"
         THEN IF t - (IF b.last_failure_time = NoTime THEN 0 ELSE b.last_failure_time)
                    > b.recovery_timeout
              THEN [ok |-> TRUE, b |-> [b EXCEPT !.state = "half-open"]]
              ELSE [ok |-> FALSE, b |-> b]
         ELSE [ok |-> TRUE, b |-> b]

s6_record_success(b) == [b EXCEPT !.failure_count = 0, !.state = "closed"]

s6_record_failure(b, t) ==
    LET n == b.failure_count + 1
    IN  [b EXCEPT !.failure_count = n, !.last_failure_time = t,
                  !.state = IF n >= b.failure_threshold THEN "open" ELSE b.state]

StageBreakerConfigured(threshold, timeout) ==
    /\ stage_breaker = StageCircuitBreaker(threshold, timeout)
    /\ s6_now = 0
    /\ s6_last = "none"
    /\ s6_tripped_at = NoTime

StageBreakerInit ==
    \E threshold \in 1..MaxThreshold, timeout \in 1..MaxTimeout :
        StageBreakerConfigured(threshold, timeout)

StageBreakerIdle == StageBreakerConfigured(3, 1)

\* One execution of the stage's node (it has no suspension point): the breaker
\* refuses, or admits and the stage is skipped, or its work succeeds or raises.
StageNode(outcome) ==
    LET a == s6_can_execute(stage_breaker, s6_now)
    IN  /\ stage_breaker.failure_count < MaxCalls
        /\ IF ~a.ok
           THEN /\ s6_last' = "refused"
                /\ stage_breaker' = a.b
                /\ s6_tripped_at' = s6_tripped_at
           ELSE /\ s6_last' = outcome
                /\ stage_breaker' =
                      CASE outcome = "skipped" -> a.b
                        [] outcome = "succeeded" -> s6_record_success(a.b)
                        [] outcome = "failed" -> s6_record_failure(a.b, s6_now)
                /\ s6_tripped_at' =
                      IF stage_breaker'.state = "open" /\ a.b.state # "open" THEN s6_now
                      ELSE IF a.b.state = "half-open" THEN NoTime
                      ELSE s6_tripped_at
        /\ UNCHANGED s6_now

StageTick ==
    /\ s6_now < MaxTime + MaxTimeout
    /\ s6_now' = s6_now + 1
    /\ UNCHANGED <<stage_breaker, s6_last, s6_tripped_at>>

(***************************************************************************)
(* market_research/resilience.py: BulkheadExecutor                         *)
(* (asyncio.Semaphore: acquire() takes a slot when one is free and nobody  *)
(* waits, else suspends in FIFO order; release() frees the slot and hands  *)
(* it to the first waiter)                                                 *)
(***************************************************************************)
NumCallers == 3
MaxConcurrency == 2
MaxRuns == 4

Callers == 1..NumCallers

BulkheadConfigured(k) ==
    /\ max_concurrency = k
    /\ sem_value = k
    /\ sem_waiters = <<>>
    /\ bh_pc = [c \in Callers |-> "idle"]
    /\ bh_via = [c \in Callers |-> "run"]
    /\ bh_waited = [c \in Callers |-> FALSE]
    /\ bh_runs = 0
    /\ bh_done = 0

BulkheadInit == \E k \in 1..MaxConcurrency : BulkheadConfigured(k)

BulkheadIdle == BulkheadConfigured(1)

SlotFreeOffByOne(v, waiters) == v >= 0 /\ waiters = <<>>

\* not self._sem.locked(): acquire() returns without suspending.
SlotFree(v, waiters) == v > 0 /\ waiters = <<>>

ReleasesUnlessRaised(outcome) == outcome = "returned"

\* `async with self._sem:` releases in __aexit__ whether the body returned or raised.
ReleasesSlot(outcome) == outcome \in {"returned", "raised"}

\* run(coro_factory) or `async with slot():` up to the body: acquire().
BulkheadEnter(c, via) ==
    /\ bh_pc[c] \in {"idle", "returned", "raised"}
    /\ bh_runs < MaxRuns
    /\ bh_runs' = bh_runs + 1
    /\ bh_via' = [bh_via EXCEPT ![c] = via]
    /\ IF SlotFree(sem_value, sem_waiters)
       THEN /\ sem_value' = sem_value - 1
            /\ bh_pc' = [bh_pc EXCEPT ![c] = "running"]
            /\ bh_waited' = [bh_waited EXCEPT ![c] = FALSE]
            /\ sem_waiters' = sem_waiters
       ELSE /\ sem_waiters' = Append(sem_waiters, c)
            /\ bh_pc' = [bh_pc EXCEPT ![c] = "waiting"]
            /\ bh_waited' = [bh_waited EXCEPT ![c] = TRUE]
            /\ sem_value' = sem_value
    /\ UNCHANGED <<max_concurrency, bh_done>>

\* A woken caller is scheduled again: acquire() returns and the body starts.
BulkheadResume(c) ==
    /\ bh_pc[c] = "woken"
    /\ bh_pc' = [bh_pc EXCEPT ![c] = "running"]
    /\ UNCHANGED <<max_concurrency, sem_value, sem_waiters, bh_via, bh_waited, bh_runs, bh_done>>

\* The body (the awaited coroutine, or the block under slot()) returns or raises:
\* __aexit__ releases, and release() wakes the first waiter, which takes the slot.
BulkheadExitWith(c, outcome) ==
    /\ bh_pc[c] = "running"
    /\ bh_done' = bh_done + 1
    /\ IF ReleasesSlot(outcome)
       THEN IF sem_waiters # <<>>
            THEN /\ sem_value' = sem_value
                 /\ sem_waiters' = Tail(sem_waiters)
                 /\ bh_pc' = [bh_pc EXCEPT ![c] = outcome, ![Head(sem_waiters)] = "woken"]
            ELSE /\ sem_value' = sem_value + 1
                 /\ sem_waiters' = sem_waiters
                 /\ bh_pc' = [bh_pc EXCEPT ![c] = outcome]
       ELSE /\ sem_value' = sem_value
            /\ sem_waiters' = sem_waiters
            /\ bh_pc' = [bh_pc EXCEPT ![c] = outcome]
    /\ UNCHANGED <<max_concurrency, bh_via, bh_waited, bh_runs>>

BulkheadExit(c) == \E outcome \in {"returned", "raised"} : BulkheadExitWith(c, outcome)

(***************************************************************************)
(* agents/orchestrator/agent.py: OrchestratorAgent                          *)
(***************************************************************************)
MaxSteps == 3

\* What happens when a (well-formed) step is invoked:
\*   "ok"           its agent's execute() returns an output
\*   "error"        execute() raises an exception whose str() is not empty
\*   "error_empty"  execute() raises an exception whose str() is "" (TimeoutError(),
\*                  ValueError(), AgentError(message=""))
\*   "unregistered" the label is not in agent_registry
\*   "ctor_raises"  the agent class raises while being instantiated
StepKinds == {"ok", "error", "error_empty", "unregistered", "ctor_raises"}

RECURSIVE SeqsUpTo(_, _)
SeqsUpTo(S, n) ==
    IF n = 0 THEN {<<>>}
    ELSE LET shorter == SeqsUpTo(S, n - 1)
         IN  shorter \cup {Append(q, x) : q \in {r \in shorter : Len(r) = n - 1}, x \in S}

Workflows == SeqsUpTo(StepKinds, MaxSteps)

\* A key the entry does not have (dict.get returns None for it).
Absent == "<absent>"

\* The entry _invoke_agent returns for the step at position i (its label stands for
\* the position), or Raises when the exception leaves _invoke_agent.
Raises == [agent |-> 0, output |-> Absent, error |-> Absent]

invoke_agent(kind, i) ==
    CASE kind = "unregistered" -> [agent |-> i, output |-> Absent, error |-> "not registered"]
      [] kind = "ctor_raises" -> Raises
      [] kind = "ok" -> [agent |-> i, output |-> "output", error |-> Absent]
      [] kind = "error" -> [agent |-> i, output |-> Absent, error |-> "boom"]
      [] kind = "error_empty" -> [agent |-> i, output |-> Absent, error |-> ""]

\* The truth value of outcome.get("error").
HasErrorMarker(outcome) == outcome.error \notin {Absent, ""}

OrchConfigured(steps, parallel) ==
    /\ o_steps = steps
    /\ o_parallel = parallel
    /\ o_pc = "start"
    /\ o_index = 1
    /\ o_results = <<>>
    /\ o_invoked = <<>>
    /\ o_child = [i \in 1..Len(steps) |-> "pending"]
    /\ o_entry = [i \in 1..Len(steps) |-> Raises]

OrchInit == \E steps \in Workflows, parallel \in BOOLEAN : OrchConfigured(steps, parallel)

OrchIdle == OrchConfigured(<<>>, FALSE)

\* run(): an empty workflow returns at once, else the mode is chosen; in parallel
\* mode _run_parallel builds the coroutines and gather() schedules one task each.
OrchRun ==
    /\ o_pc = "start"
    /\ o_pc' = IF o_steps = <<>> THEN "returned"
               ELSE IF o_parallel THEN "parallel" ELSE "sequential"
    /\ UNCHANGED <<o_steps, o_parallel, o_index, o_results, o_invoked, o_child, o_entry>>

\* One iteration of the loop of _run_sequential.
RunSequentialStep ==
    LET kind == o_steps[o_index]
        outcome == invoke_agent(kind, o_index)
    IN  /\ o_pc = "sequential"
        /\ o_index <= Len(o_steps)
        /\ o_invoked' = IF kind = "unregistered" THEN o_invoked ELSE Append(o_invoked, o_index)
        /\ IF outcome = Raises
           THEN /\ o_pc' = "raised"
                /\ UNCHANGED <<o_index, o_results>>
           ELSE /\ o_results' = Append(o_results, outcome)
                /\ IF HasErrorMarker(outcome)
                   THEN o_pc' = "returned" /\ o_index' = o_index
                   ELSE /\ o_index' = o_index + 1
                        /\ o_pc' = IF o_index = Len(o_steps) THEN "returned" ELSE "sequential"
        /\ UNCHANGED <<o_steps, o_parallel, o_child, o_entry>>

\* Parallel mode: the task of position i runs for the first time. The event loop
\* starts the tasks in the order gather() created them. _invoke_agent returns at
\* once for an unregistered label, raises when the class cannot be instantiated,
\* and otherwise suspends in `await agent_instance.execute(child_input)`.
ParallelChildStart(i) ==
    LET kind == o_steps[i]
    IN  /\ o_pc = "parallel"
        /\ o_child[i] = "pending"
        /\ \A j \in 1..(i - 1) : o_child[j] # "pending"
        /\ o_invoked' = IF kind = "unregistered" THEN o_invoked ELSE Append(o_invoked, i)
        /\ CASE kind = "unregistered" ->
                   /\ o_child' = [o_child EXCEPT ![i] = "done"]
                   /\ o_entry' = [o_entry EXCEPT ![i] = invoke_agent(kind, i)]
             [] kind = "ctor_raises" ->
                   /\ o_child' = [o_child EXCEPT ![i] = "raised"]
                   /\ o_entry' = o_entry
             [] OTHER ->
                   /\ o_child' = [o_child EXCEPT ![i] = "executing"]
                   /\ o_entry' = o_entry
        /\ UNCHANGED <<o_steps, o_parallel, o_pc, o_index, o_results>>

\* Parallel mode: the child's execute() ends and _invoke_agent returns its entry.
ParallelChildFinish(i) ==
    /\ o_pc = "parallel"
    /\ o_child[i] = "executing"
    /\ o_child' = [o_child EXCEPT ![i] = "done"]
    /\ o_entry' = [o_entry EXCEPT ![i] = invoke_agent(o_steps[i], i)]
    /\ UNCHANGED <<o_steps, o_parallel, o_pc, o_index, o_results, o_invoked>>

\* `return await asyncio.gather(*coroutines)`: every task returned, the results
\* come back in the order of the arguments.
GatherReturns ==
    /\ o_pc = "parallel"
    /\ \A i \in 1..Len(o_steps) : o_child[i] = "done"
    /\ o_results' = [i \in 1..Len(o_steps) |-> o_entry[i]]
    /\ o_pc' = "returned"
    /\ UNCHANGED <<o_steps, o_parallel, o_index, o_invoked, o_child, o_entry>>

\* gather() without return_exceptions: the first exception of a task is raised in
\* the awaiting run() as soon as the event loop resumes it, which is after every
\* task had its first turn; tasks still executing are not awaited.
GatherRaises ==
    /\ o_pc = "parallel"
    /\ \E i \in 1..Len(o_steps) : o_child[i] = "raised"
    /\ \A i \in 1..Len(o_steps) : o_child[i] # "pending"
    /\ o_pc' = "raised"
    /\ UNCHANGED <<o_steps, o_parallel, o_index, o_results, o_invoked, o_child, o_entry>>

(***************************************************************************)
(* core/hitl.py: HITLRequest and InMemoryHITLQueue                          *)
(***************************************************************************)
NumRequestIds == 2
MaxHitlCalls == 4

RequestIds == 1..NumRequestIds
TaskNames == {"AgentA", "AgentB"}

HITL_PENDING == "pending"
HITL_APPROVED == "approved"
HITL_REJECTED == "rejected"
HITL_CANCELLED == "cancelled"

\* The values callers pass as `status`: resolve() takes any string.
StatusArguments == {HITL_PENDING, HITL_APPROVED, HITL_REJECTED, HITL_CANCELLED}

\* The values callers pass as `resolution`: None or a dict.
NoResolution == "<none>"
Resolutions == {NoResolution, "notes"}

\* HITLRequest(request_id, task_name, payload) as its constructor leaves it.
HITLRequest(id, task, t) ==
    [request_id |-> id, task_name |-> task, created_at |-> t,
     resolved_at |-> NoTime, status |-> HITL_PENDING, resolution |-> NoResolution]

mark_without_stamp(item, status, resolution, t) ==
    [item EXCEPT !.status = status, !.resolution = resolution]

\* HITLRequest.mark
mark(item, status, resolution, t) ==
    [item EXCEPT !.status = status, !.resolution = resolution, !.resolved_at = t]

\* The last call on the queue; `replaced` is the status of the entry a submit
\* overwrote ("none" when the id was not stored).
NoCall == [op |-> "none", id |-> 0, status |-> HITL_PENDING,
           resolution |-> NoResolution, raised |-> "none", replaced |-> "none"]

\* A submit that leaves an id that is already stored alone.
store_keeps_existing(requests, request) ==
    IF request.request_id \in DOMAIN requests THEN requests
    ELSE [k \in (DOMAIN requests) \cup {request.request_id} |->
             IF k = request.request_id THEN request ELSE requests[k]]

\* self._requests[request.request_id] = request
store(requests, request) ==
    [k \in (DOMAIN requests) \cup {request.request_id} |->
        IF k = request.request_id THEN request ELSE requests[k]]

HITLQueueEmpty ==
    /\ h_requests = << >>
    /\ h_now = 0
    /\ h_last = NoCall

HITLInit == HITLQueueEmpty

HITLIdle == HITLQueueEmpty

\* InMemoryHITLQueue.submit(request) of a request the caller has just built.
HITLSubmit(id, task) ==
    /\ h_now < MaxHitlCalls
    /\ h_now' = h_now + 1
    /\ h_requests' = store(h_requests, HITLRequest(id, task, h_now))
    /\ h_last' = [NoCall EXCEPT !.op = "submit", !.id = id,
                                !.replaced = IF id \in DOMAIN h_requests
                                             THEN h_requests[id].status ELSE "none"]

\* InMemoryHITLQueue.resolve(request_id, status, resolution)
HITLResolve(id, status, resolution) ==
    /\ h_now < MaxHitlCalls
    /\ h_now' = h_now + 1
    /\ IF id \notin DOMAIN h_requests
       THEN /\ h_requests' = h_requests
            /\ h_last' = [op |-> "resolve", id |-> id, status |-> status,
                          resolution |-> resolution, raised |-> "KeyError",
                          replaced |-> "none"]
       ELSE /\ h_requests' = [h_requests EXCEPT ![id] = mark(@, status, resolution, h_now)]
            /\ h_last' = [op |-> "resolve", id |-> id, status |-> status,
                          resolution |-> resolution, raised |-> "none",
                          replaced |-> "none"]

(***************************************************************************)
(* utils/base_agent.py: BaseAgent.execute                                   *)
(***************************************************************************)
\* The payloads a caller passes to execute: an AgentInput, a mapping coerce()
\* accepts, something that is not a mapping, a mapping whose input_data is not one.
PayloadKinds == {"agent_input", "mapping", "not_a_mapping", "bad_input_data"}

AcceptedPayloads == {"agent_input", "mapping"}

\* What AgentInput.coerce raises for a payload it rejects.
CoerceFailure(payload) ==
    [cls |-> IF payload = "not_a_mapping" THEN "TypeError" ELSE "ValueError",
     retryable |-> FALSE, id |-> 0]

\* The results run() returns, and "no value".
RunValues == {"out1", "out2"}
NoValue == "<no value>"

\* The exceptions run() raises in this model: a human-input request, a retryable
\* and a non-retryable error of the taxonomy, and one from outside it.
AgentRaisable ==
    {e \in Raisable : e.cls \in {"HumanInputRequiredError", "RetryableAgentError",
                                 "ValidationError", "TimeoutError"}}

\* coerce_agent_error
coerce_agent_error(error) ==
    IF IsInstance(error, {"AgentError"}) THEN error
    ELSE [cls |-> "AgentError", retryable |-> FALSE, id |-> error.id]

AgentConfigured(payload, rid, name, queue) ==
    /\ a_payload = payload
    /\ a_request_id = rid
    /\ a_name = name
    /\ a_queue = queue
    /\ a_events = <<>>
    /\ a_captured = <<>>
    /\ a_error = None
    /\ a_value = NoValue
    /\ a_result = NoValue

AgentInit ==
    /\ \E payload \in PayloadKinds, rid \in RequestIds, name \in TaskNames,
          queue \in {"none", "memory"} : AgentConfigured(payload, rid, name, queue)
    /\ a_pc = "start"

AgentIdle == AgentConfigured("agent_input", 1, "AgentA", "none") /\ a_pc = "idle"

EmitsSuccessEveryAttempt(events, returned) == Append(events, "agent.success")

\* runner(): 'agent.success' is emitted after run() returned, not when it raised.
EventsAfterAttempt(events, returned) ==
    IF returned THEN Append(events, "agent.success") ELSE events

EnqueuesNothing(requests, queue, rid, name, t) == requests

\* _enqueue_hitl: what self.hitl_queue holds afterwards.
Enqueued(requests, queue, rid, name, t) ==
    IF queue = "none" THEN requests
    ELSE [k \in (DOMAIN requests) \cup {rid} |->
             IF k = rid THEN HITLRequest(rid, name, t) ELSE requests[k]]

CapturesNothing(captured, error) == captured

\* self.capture_exception(error, agent=...)
Captured(captured, error) == Append(captured, error)

\* execute lines 98-105: coerce the payload (outside the try), bind the context,
\* emit 'agent.start'.
AgentBegin ==
    /\ a_pc = "start"
    /\ IF a_payload \in AcceptedPayloads
       THEN /\ a_events' = Append(a_events, "agent.start")
            /\ a_pc' = "retrying"
            /\ a_error' = a_error
       ELSE /\ a_events' = a_events
            /\ a_pc' = "raised"
            /\ a_error' = CoerceFailure(a_payload)
    /\ UNCHANGED <<a_payload, a_request_id, a_name, a_queue, a_captured, a_value, a_result>>
    /\ UNCHANGED <<retryVars, hitlVars>>

\* The except clauses of execute, for the exception exc that left the retrier,
\* events being what was emitted so far.
AgentHandles(exc, events) ==
    /\ a_pc' = "raised"
    /\ IF IsInstance(exc, {"HumanInputRequiredError"})
       THEN /\ h_requests' = Enqueued(h_requests, a_queue, a_request_id, a_name, h_now)
            /\ h_now' = IF a_queue = "none" THEN h_now ELSE h_now + 1
            /\ h_last' = IF a_queue = "none" THEN h_last
                          ELSE [NoCall EXCEPT !.op = "submit", !.id = a_request_id,
                                       !.replaced =
                                           IF a_request_id \in DOMAIN h_requests
                                           THEN h_requests[a_request_id].status
                                           ELSE "none"]
            /\ a_events' = IF a_queue = "none" THEN events
                            ELSE Append(events, "agent.hitl_enqueued")
            /\ a_captured' = Captured(a_captured, exc)
            /\ a_error' = exc
       ELSE /\ UNCHANGED hitlVars
            /\ a_events' = events
            /\ a_captured' = Captured(a_captured, coerce_agent_error(exc))
            /\ a_error' = coerce_agent_error(exc)
    /\ UNCHANGED <<a_payload, a_request_id, a_name, a_queue, a_value, a_result>>

\* An attempt of the retrier whose run() returns v: runner emits 'agent.success'
\* and returns v, retry_async and execute return it.
AgentAttemptReturns(v) ==
    /\ a_pc = "retrying"
    /\ FuncReturns
    /\ a_events' = EventsAfterAttempt(a_events, TRUE)
    /\ a_value' = v
    /\ a_result' = v
    /\ a_pc' = "returned"
    /\ UNCHANGED <<a_payload, a_request_id, a_name, a_queue, a_captured, a_error>>
    /\ UNCHANGED hitlVars

\* An attempt whose run() raises e: the retrier sleeps for another attempt, or
\* lets the exception out and an except clause of execute handles it.
AgentAttemptRaises(e) ==
    /\ a_pc = "retrying"
    /\ FuncRaises(e)
    /\ IF r_pc' = "raised"
       THEN AgentHandles(r_escaped', EventsAfterAttempt(a_events, FALSE))
       ELSE /\ a_events' = EventsAfterAttempt(a_events, FALSE)
            /\ UNCHANGED <<a_payload, a_request_id, a_name, a_queue, a_pc, a_captured,
                           a_error, a_value, a_result>>
            /\ UNCHANGED hitlVars

\* The backoff wait of the retrier is over.
AgentSleepDone ==
    /\ a_pc = "retrying"
    /\ SleepDone
    /\ UNCHANGED <<agentVars, hitlVars>>

\* The retrier's loop was empty (attempts = 0): its RuntimeError reaches execute.
AgentLoopExhausted ==
    /\ a_pc = "retrying"
    /\ LoopExhausted
    /\ AgentHandles(r_escaped', a_events)

(***************************************************************************)
(* A sequential workflow end to end: _run_sequential, _invoke_agent, the    *)
(* child's execute and its retrier.                                         *)
(***************************************************************************)
\* What run() of a child does at its 1st, 2nd, ... invocation ("ok": it returns;
\* else the class it raises); the last element repeats.
RunScripts ==
    {<<"ok">>,
     <<"RetryableAgentError", "ok">>,
     <<"RetryableAgentError", "RetryableAgentError", "ok">>,
     <<"RetryableAgentError">>,
     <<"ValidationError">>}

\* A step of the workflow: a registered label whose agent executes a script, a
\* label that is not registered, a class that cannot be instantiated.
WorkflowSteps ==
    {[kind |-> "executes", script |-> sc] : sc \in RunScripts}
        \cup {[kind |-> k, script |-> <<>>] : k \in {"unregistered", "ctor_raises"}}

\* The orchestrator's retry_policy, which it hands to every child.
WorkflowPolicies ==
    {p \in RetryPolicy : /\ p.retry_exceptions = DefaultRetryExceptions
                         /\ p.non_retryable_exceptions = DefaultNonRetryable}

E2EInit ==
    \E wf \in SeqsUpTo(WorkflowSteps, MaxSteps) :
        /\ OrchConfigured([i \in 1..Len(wf) |-> wf[i].kind], FALSE)
        /\ e_scripts = [i \in 1..Len(wf) |-> wf[i].script]
        /\ e_calls = <<>>

E2EIdle == e_scripts = <<>> /\ e_calls = <<>>

\* What the current child's run() does at its next invocation.
NextBehaviour ==
    LET sc == e_scripts[o_index]
    IN  sc[Min(r_calls + 1, Len(sc))]

\* run() of the orchestrator up to the loop.
E2ERun ==
    /\ OrchRun
    /\ UNCHANGED <<retryVars, hitlVars, agentVars, e2eVars>>

\* An iteration of the loop whose step never reaches a child's execute.
E2EDirectStep ==
    /\ a_pc = "idle"
    /\ o_index <= Len(o_steps)
    /\ o_steps[o_index] \in {"unregistered", "ctor_raises"}
    /\ RunSequentialStep
    /\ e_calls' = Append(e_calls, 0)
    /\ UNCHANGED <<retryVars, hitlVars, agentVars, e_scripts>>

\* _invoke_agent up to `await agent_instance.execute(child_input)`: the child is
\* built with the orchestrator's telemetry, retry_policy and hitl_queue.
E2EInvoke ==
    /\ o_pc = "sequential"
    /\ a_pc = "idle"
    /\ o_index <= Len(o_steps)
    /\ o_steps[o_index] = "executes"
    /\ o_invoked' = Append(o_invoked, o_index)
    /\ a_payload' = "agent_input"
    /\ a_request_id' = o_index
    /\ a_name' = "AgentA"
    /\ a_queue' = "none"
    /\ a_pc' = "start"
    /\ a_events' = <<>>
    /\ a_captured' = <<>>
    /\ a_error' = None
    /\ a_value' = NoValue
    /\ a_result' = NoValue
    /\ attempt' = 1
    /\ last_error' = None
    /\ r_pc' = "calling"
    /\ r_calls' = 0
    /\ r_raised' = <<>>
    /\ r_slept' = <<>>
    /\ r_escaped' = None
    /\ UNCHANGED <<r_mode, policy, hitlVars, e2eVars>>
    /\ UNCHANGED <<o_steps, o_parallel, o_pc, o_index, o_results, o_child, o_entry>>

\* The child's execute, run() doing what the step's script says.
E2EChildBegin == AgentBegin /\ UNCHANGED <<orchVars, e2eVars>>

E2EChildReturns ==
    /\ a_pc = "retrying"
    /\ NextBehaviour = "ok"
    /\ AgentAttemptReturns("out1")
    /\ UNCHANGED <<orchVars, e2eVars>>

E2EChildRaises ==
    /\ a_pc = "retrying"
    /\ NextBehaviour # "ok"
    /\ \E e \in Raisable : e.cls = NextBehaviour /\ AgentAttemptRaises(e)
    /\ UNCHANGED <<orchVars, e2eVars>>

E2EChildSleepDone == AgentSleepDone /\ UNCHANGED <<orchVars, e2eVars>>

E2EChildLoopExhausted == AgentLoopExhausted /\ UNCHANGED <<orchVars, e2eVars>>

\* The child's execute ended: _invoke_agent returns its entry (the message of an
\* exception may be empty), _run_sequential appends it and goes on or breaks.
E2ECollect ==
    /\ o_pc = "sequential"
    /\ a_pc \in {"returned", "raised"}
    /\ \E kind \in (IF a_pc = "returned" THEN {"ok"} ELSE {"error", "error_empty"}) :
          LET outcome == invoke_agent(kind, o_index)
          IN  /\ o_results' = Append(o_results, outcome)
              /\ IF HasErrorMarker(outcome)
                 THEN o_pc' = "returned" /\ o_index' = o_index
                 ELSE /\ o_index' = o_index + 1
                      /\ o_pc' = IF o_index = Len(o_steps) THEN "returned" ELSE "sequential"
    /\ e_calls' = Append(e_calls, r_calls)
    /\ a_pc' = "idle"
    /\ UNCHANGED <<a_payload, a_request_id, a_name, a_queue, a_events, a_captured,
                   a_error, a_value, a_result>>
    /\ UNCHANGED <<retryVars, hitlVars, e_scripts>>
    /\ UNCHANGED <<o_steps, o_parallel, o_invoked, o_child, o_entry>>

(***************************************************************************)
(* core/context.py: AgentContextManager over the task-local _CURRENT_CONTEXT *)
(***************************************************************************)
MaxDepth == 3

NoContext == "None"
Contexts == {"ctxA", "ctxB", "ctxC"}

\* How a `with AgentContextManager(...)` block is left.
ExitPaths == {"return", "HumanInputRequiredError", "exception"}

\* ContextVar.set(value): the new value and the token holding the old one.
cv_set(current, value) == [current |-> value, token |-> current]

cv_reset_clears(current, token) == NoContext

\* ContextVar.reset(token): the value the variable has afterwards.
cv_reset(current, token) == token

ContextBound(outer) ==
    /\ c_outer = outer
    /\ c_current = outer
    /\ c_stack = <<>>
    /\ c_last = "none"

\* Nothing is bound, or the caller bound a context with bind_context().
ContextInit == \E outer \in {NoContext} \cup Contexts : ContextBound(outer)

ContextIdle == ContextBound(NoContext)

\* __enter__ / __aenter__ of a new AgentContextManager(ctx).
CtxEnter(ctx) ==
    LET bound == cv_set(c_current, ctx)
    IN  /\ Len(c_stack) < MaxDepth
        /\ c_current' = bound.current
        /\ c_stack' = Append(c_stack, [context |-> ctx, token |-> bound.token])
        /\ c_last' = "enter"
        /\ UNCHANGED c_outer

\* __exit__ / __aexit__ of the innermost scope, whatever ends the block (the
\* method returns None, so an exception goes on propagating).
CtxExit(path) ==
    /\ c_stack # <<>>
    /\ c_current' = cv_reset(c_current, c_stack[Len(c_stack)].token)
    /\ c_stack' = SubSeq(c_stack, 1, Len(c_stack) - 1)
    /\ c_last' = path
    /\ UNCHANGED c_outer

(***************************************************************************)
(* core/context.py: AgentContext.child, as the runtime derives contexts     *)
(***************************************************************************)
MaxContexts == 4

NoSpan == "None"

\* The span ids the orchestrator gives: f"{label}-{position}".
StepSpans == {"A-0", "B-1"}

\* The root contexts: built by AgentInput.ensure_context (no span ids) or handed
\* in by the caller.
RootContexts ==
    [request_id : {"req1", "req2"}, span_id : {NoSpan, "", "root"},
     parent_span_id : {NoSpan, "up"}, metadata : {{}, {"k"}}]

\* `self.span_id or self.parent_span_id`
SpanOrParentSpan(ctx) ==
    IF ctx.span_id \notin {NoSpan, ""} THEN ctx.span_id ELSE ctx.parent_span_id

child_keeps_parent_span(ctx, span) ==
    [request_id |-> ctx.request_id, span_id |-> span,
     parent_span_id |-> ctx.parent_span_id, metadata |-> ctx.metadata]

\* AgentContext.child(span_id=span): a new context, metadata copied.
child(ctx, span) ==
    [request_id |-> ctx.request_id, span_id |-> span,
     parent_span_id |-> SpanOrParentSpan(ctx), metadata |-> ctx.metadata]

TreeRooted(root) == t_nodes = <<[ctx |-> root, parent |-> 0]>>

TreeInit == \E root \in RootContexts : TreeRooted(root)

TreeIdle ==
    TreeRooted([request_id |-> "req1", span_id |-> NoSpan, parent_span_id |-> NoSpan,
                metadata |-> {}])

\* _invoke_agent line 112: the context of a step, derived from context p.
Derive(p, span) ==
    /\ Len(t_nodes) < MaxContexts
    /\ t_nodes' = Append(t_nodes, [ctx |-> child(t_nodes[p].ctx, span), parent |-> p])

(***************************************************************************)
(* graphs/switch6_graph.py: the six-node graph and run_switch6_workflow    *)
(* (the graph is a chain START -> segment -> ... -> cash -> END, so each   *)
(* node runs once per run; a node catches every Exception of its work, so  *)
(* the node-level RetryPolicy of add_node never sees a failure)            *)
(***************************************************************************)
MaxPipelineRuns == 2
MaxPipelineTime == 2
MaxStageThreshold == 2
MaxRecoveryTimeout == 1

Stages == <<"segment", "wound", "reframe", "offer", "action", "cash">>

StageNames == {Stages[i] : i \in 1..Len(Stages)}

\* research_confidence of a stage's result, as reported by the engine (one
\* representative value; no node reads it).
Confidences == {1}

NoResult == [research_confidence |-> -1]

\* result.get("framework_completion_score") when the key is absent.
NoScore == -1

NoRun == [returned |-> FALSE]

\* max_retries = 2 in every node.
max_retries == 2

\* _add_error without the entry.
add_error_drops(errors, stage, error, t) == errors

\* _add_error: a {stage, error, timestamp} entry appended to state["errors"].
add_error(errors, stage, error, t) ==
    Append(errors, [stage |-> stage, error |-> error, timestamp |-> t])

\* _can_skip_stage that never skips.
can_skip_never(valid, i) == FALSE

\* _can_skip_stage for the i-th stage: the previous stage is not valid; the
\* first stage is never skipped.
_can_skip_stage(valid, i) == i > 1 /\ ~valid[Stages[i - 1]]

\* A success branch that never sets execution_complete.
completes_on_success_never(stage) == FALSE

\* The success branch of cash_node sets execution_complete; no other does.
completes_on_success(stage) == stage = "cash"

\* The "max retries exceeded" branch sets execution_complete in segment_node
\* and cash_node only.
completes_on_exhaustion(stage) == stage \in {"segment", "cash"}

\* An edge from a stage back to itself.
next_node_is_same(i) == i

\* add_edge: the only edge out of the i-th node leads to the next node of the
\* chain (END after cash).
next_node(i) == i + 1

\* Switch6Dependencies.circuit_breakers: one breaker per stage.
Switch6Dependencies(threshold, timeout) ==
    [s \in StageNames |-> StageCircuitBreaker(threshold, timeout)]

\* The graph state a run starts from: run_switch6_workflow passes only
\* business_data and user_type; _initialize_state supplies the defaults.
FreshRetryCount == [s \in StageNames |-> 0]

FreshValid == [s \in StageNames |-> FALSE]

FreshResults == [s \in StageNames |-> NoResult]

FreshOutcomes == [s \in StageNames |-> "none"]

PipelineFresh ==
    /\ p_errors = <<>>
    /\ p_retry_count = FreshRetryCount
    /\ p_complete = FALSE
    /\ p_valid = FreshValid
    /\ p_results = FreshResults
    /\ p_invoked = <<>>
    /\ p_outcomes = FreshOutcomes
    /\ p_result = NoRun

PipelineConfigured(threshold, timeout) ==
    /\ p_deps = Switch6Dependencies(threshold, timeout)
    /\ p_now = 0
    /\ p_runs = 0
    /\ p_pc = "idle"
    /\ p_next = 1
    /\ p_data = TRUE
    /\ PipelineFresh

PipelineInit ==
    \E threshold \in 1..MaxStageThreshold, timeout \in 1..MaxRecoveryTimeout :
        PipelineConfigured(threshold, timeout)

PipelineIdle == PipelineConfigured(3, 1)

\* run_switch6_workflow(business_data, user_type, dependencies) up to
\* graph.ainvoke(initial_state); the dependencies are the caller's.
PipelineStart(data) ==
    /\ p_pc \in {"idle", "returned"}
    /\ p_runs < MaxPipelineRuns
    /\ p_runs' = p_runs + 1
    /\ p_pc' = "running"
    /\ p_next' = 1
    /\ p_data' = data
    /\ p_errors' = <<>>
    /\ p_retry_count' = FreshRetryCount
    /\ p_complete' = FALSE
    /\ p_valid' = FreshValid
    /\ p_results' = FreshResults
    /\ p_invoked' = <<>>
    /\ p_outcomes' = FreshOutcomes
    /\ p_result' = NoRun
    /\ UNCHANGED <<p_deps, p_now>>

AtStage == p_pc = "running" /\ p_next <= Len(Stages)

Stage == Stages[p_next]

Admission == s6_can_execute(p_deps[Stage], p_now)

\* The node returns _add_error(...) because its breaker refuses.
StageRefused ==
    /\ AtStage
    /\ ~Admission.ok
    /\ p_errors' = add_error(p_errors, Stage, <<"Circuit breaker open for", Stage>>, p_now)
    /\ p_outcomes' = [p_outcomes EXCEPT ![Stage] = "refused"]
    /\ p_next' = next_node(p_next)
    /\ UNCHANGED <<p_deps, p_now, p_runs, p_pc, p_data, p_retry_count, p_complete, p_valid,
                   p_results, p_invoked, p_result>>

\* The node returns {**state, "current_stage": stage}: skipped.
StageSkipped ==
    /\ AtStage
    /\ Admission.ok
    /\ _can_skip_stage(p_valid, p_next)
    /\ p_deps' = [p_deps EXCEPT ![Stage] = Admission.b]
    /\ p_outcomes' = [p_outcomes EXCEPT ![Stage] = "skipped"]
    /\ p_next' = next_node(p_next)
    /\ UNCHANGED <<p_now, p_runs, p_pc, p_data, p_errors, p_retry_count, p_complete, p_valid,
                   p_results, p_invoked, p_result>>

\* The work returns: results stored, stage valid, retry counter reset,
\* record_success().
StageWorkReturns(c) ==
    /\ AtStage
    /\ Admission.ok
    /\ ~_can_skip_stage(p_valid, p_next)
    /\ p_data
    /\ p_invoked' = Append(p_invoked, Stage)
    /\ p_results' = [p_results EXCEPT ![Stage] = [research_confidence |-> c]]
    /\ p_valid' = [p_valid EXCEPT ![Stage] = TRUE]
    /\ p_retry_count' = [p_retry_count EXCEPT ![Stage] = 0]
    /\ p_complete' = IF completes_on_success(Stage) THEN TRUE ELSE p_complete
    /\ p_deps' = [p_deps EXCEPT ![Stage] = s6_record_success(Admission.b)]
    /\ p_outcomes' = [p_outcomes EXCEPT ![Stage] = "succeeded"]
    /\ p_next' = next_node(p_next)
    /\ UNCHANGED <<p_now, p_runs, p_pc, p_data, p_errors, p_result>>

\* The except branch of a node: record_failure(), then the retry counter.
StageFails(error) ==
    LET retry_count == p_retry_count[Stage] + 1
    IN  /\ p_deps' = [p_deps EXCEPT ![Stage] = s6_record_failure(Admission.b, p_now)]
        /\ IF retry_count <= max_retries
           THEN /\ p_retry_count' = [p_retry_count EXCEPT ![Stage] = retry_count]
                /\ UNCHANGED <<p_errors, p_valid, p_complete>>
           ELSE /\ p_errors' = add_error(p_errors, Stage, error, p_now)
                /\ p_valid' = [p_valid EXCEPT ![Stage] = FALSE]
                /\ p_complete' = IF completes_on_exhaustion(Stage) THEN TRUE ELSE p_complete
                /\ UNCHANGED p_retry_count
        /\ p_outcomes' = [p_outcomes EXCEPT ![Stage] = "failed"]
        /\ p_next' = next_node(p_next)
        /\ UNCHANGED <<p_now, p_runs, p_pc, p_data, p_results, p_result>>

\* The work raises.
StageWorkRaises ==
    /\ AtStage
    /\ Admission.ok
    /\ ~_can_skip_stage(p_valid, p_next)
    /\ p_data
    /\ p_invoked' = Append(p_invoked, Stage)
    /\ StageFails(<<"work failed">>)

\* `if not business_data: raise ValueError(...)`, before the work is called.
StageNoData ==
    /\ AtStage
    /\ Admission.ok
    /\ ~_can_skip_stage(p_valid, p_next)
    /\ ~p_data
    /\ UNCHANGED p_invoked
    /\ StageFails(<<"No business data provided">>)

\* ainvoke returns after cash_node; run_switch6_workflow builds its result.
\* No node writes framework_completion_score, so the key is absent.
PipelineReturn ==
    /\ p_pc = "running"
    /\ p_next = Len(Stages) + 1
    /\ p_pc' = "returned"
    /\ p_result' = [returned |-> TRUE,
                    stages |-> p_results,
                    framework_completion_score |-> NoScore,
                    errors |-> p_errors,
                    execution_complete |-> p_complete]
    /\ UNCHANGED <<p_deps, p_now, p_runs, p_next, p_data, p_errors, p_retry_count, p_complete,
                   p_valid, p_results, p_invoked, p_outcomes>>

\* time.time() advances.
PipelineTick ==
    /\ p_now < MaxPipelineTime
    /\ p_now' = p_now + 1
    /\ UNCHANGED <<p_deps, p_runs, p_pc, p_next, p_data, p_errors, p_retry_count, p_complete,
                   p_valid, p_results, p_invoked, p_outcomes, p_result>>

(***************************************************************************)
(* core/hitl.py: concurrent calls on one InMemoryHITLQueue                  *)
(* (tasks of one event loop: a task runs until it suspends; acquire() of an *)
(* asyncio.Lock suspends only when the lock is held, and release() wakes    *)
(* the first waiter)                                                        *)
(***************************************************************************)
NumQueueTasks == 2

QueueTasks == 1..NumQueueTasks

NoTask == 0

\* The calls the tasks make: submit(HITLRequest(id, ...)), resolve(id, status)
\* and get(id).
QueueCalls ==
    {[op |-> "submit", id |-> id, status |-> HITL_PENDING] : id \in RequestIds}
        \cup {[op |-> "resolve", id |-> id, status |-> s] :
                 id \in RequestIds, s \in {HITL_APPROVED, HITL_REJECTED}}
        \cup {[op |-> "get", id |-> id, status |-> HITL_PENDING] : id \in RequestIds}

NoQueueCall == [op |-> "none", id |-> 0, status |-> HITL_PENDING]

\* What a call gives its caller: "none" before it ends, the request for
\* submit, "None" or "KeyError" for resolve, the stored request or "None" for get.
NoOutcome == [kind |-> "none"]

\* A critical section that awaits while it holds the lock.
critical_section_awaits_always == TRUE

\* The bodies of the three `async with self._lock` blocks contain no await.
critical_section_awaits == FALSE

\* The block under the lock, executed at time t on the stored requests: the
\* requests afterwards and what the call gives its caller.
critical_section(requests, call, t) ==
    CASE call.op = "submit" ->
            [requests |-> store(requests, HITLRequest(call.id, "AgentA", t)),
             out |-> [kind |-> "returned", value |-> HITLRequest(call.id, "AgentA", t)]]
      [] call.op = "resolve" ->
            IF call.id \notin DOMAIN requests
            THEN [requests |-> requests, out |-> [kind |-> "KeyError"]]
            ELSE [requests |-> [requests EXCEPT
                                   ![call.id] = mark(@, call.status, NoResolution, t)],
                  out |-> [kind |-> "returned", value |-> "None"]]
      [] call.op = "get" ->
            [requests |-> requests,
             out |-> IF call.id \in DOMAIN requests
                     THEN [kind |-> "returned", value |-> requests[call.id]]
                     ELSE [kind |-> "returned", value |-> "None"]]

QueueShared ==
    /\ q_pc = [t \in QueueTasks |-> "idle"]
    /\ q_call = [t \in QueueTasks |-> NoQueueCall]
    /\ q_out = [t \in QueueTasks |-> NoOutcome]
    /\ q_running = NoTask
    /\ q_lock = NoTask
    /\ q_waiters = <<>>
    /\ q_order = <<>>

QueueInit == QueueShared

QueueIdle == QueueShared

\* A task enters `async with self._lock` (its call starts, or it is woken as
\* the first waiter): it takes the lock if it is free, else it suspends.
QueueAcquire(t) ==
    /\ q_running = NoTask
    /\ IF q_pc[t] = "idle"
       THEN \E call \in QueueCalls : q_call' = [q_call EXCEPT ![t] = call]
       ELSE /\ q_pc[t] = "waiting"
            /\ q_lock = NoTask
            /\ q_waiters # <<>> /\ Head(q_waiters) = t
            /\ q_call' = q_call
    /\ IF q_lock = NoTask
       THEN /\ q_lock' = t
            /\ q_pc' = [q_pc EXCEPT ![t] = "locked"]
            /\ q_running' = t
            /\ q_waiters' = IF q_pc[t] = "waiting" THEN Tail(q_waiters) ELSE q_waiters
       ELSE /\ q_lock' = q_lock
            /\ q_pc' = [q_pc EXCEPT ![t] = "waiting"]
            /\ q_running' = NoTask
            /\ q_waiters' = Append(q_waiters, t)
    /\ UNCHANGED <<q_out, q_order, h_requests, h_now, h_last>>

\* The block under the lock.
QueueBody(t) ==
    LET r == critical_section(h_requests, q_call[t], h_now)
    IN  /\ q_pc[t] = "locked"
        /\ q_running = t
        /\ h_requests' = r.requests
        /\ h_now' = h_now + 1
        /\ q_out' = [q_out EXCEPT ![t] = r.out]
        /\ q_order' = Append(q_order, t)
        /\ q_pc' = [q_pc EXCEPT ![t] = "leaving"]
        /\ q_running' = IF critical_section_awaits THEN NoTask ELSE t
        /\ UNCHANGED <<q_call, q_lock, q_waiters, h_last>>

\* __aexit__ releases the lock, by return or by the KeyError of resolve, and
\* the call ends.
QueueRelease(t) ==
    /\ q_pc[t] = "leaving"
    /\ q_running = t \/ (critical_section_awaits /\ q_running = NoTask)
    /\ q_lock' = NoTask
    /\ q_pc' = [q_pc EXCEPT ![t] = "done"]
    /\ q_running' = NoTask
    /\ UNCHANGED <<q_call, q_out, q_waiters, q_order, h_requests, h_now, h_last>>

(***************************************************************************)
(* market_research/fetchers.py: RequestsFetcher.fetch                       *)
(* (self._circuit_breaker.run(lambda: self._bulkhead.run(_call)): allow()   *)
(* is evaluated first, then the call waits for a slot of the bulkhead, then *)
(* _call runs, and its outcome is reported to the breaker)                  *)
(***************************************************************************)
\* _call started: who, when, and the breaker as it was at that moment.
FetchStart(t) ==
    [task |-> t, at |-> f_now, state |-> f_breaker.state, opened_at |-> f_breaker.opened_at]

FetcherConfigured(threshold, timeout, slots) ==
    /\ f_breaker = CircuitBreaker(threshold, timeout)
    /\ f_sem = slots
    /\ f_waiters = <<>>
    /\ f_pc = [t \in Tasks |-> "idle"]
    /\ f_now = 0
    /\ f_starts = <<>>

FetcherInit ==
    \E threshold \in 1..MaxThreshold, timeout \in 1..MaxTimeout, slots \in 1..MaxConcurrency :
        FetcherConfigured(threshold, timeout, slots)

FetcherIdle == FetcherConfigured(1, 1, 1)

\* fetch up to its first suspension: allow() refuses and CircuitBreakerOpen is
\* raised; or it admits and bulkhead.run takes a slot and starts _call, or
\* suspends in the semaphore's acquire().
FetchAllow(t) ==
    LET a == allow(f_breaker, f_now)
    IN  /\ f_pc[t] = "idle"
        /\ f_breaker' = a.b
        /\ IF ~a.ok
           THEN /\ f_pc' = [f_pc EXCEPT ![t] = "refused"]
                /\ UNCHANGED <<f_sem, f_waiters, f_starts>>
           ELSE IF f_sem > 0 /\ f_waiters = <<>>
                THEN /\ f_sem' = f_sem - 1
                     /\ f_pc' = [f_pc EXCEPT ![t] = "running"]
                     /\ f_starts' = Append(f_starts, [FetchStart(t) EXCEPT !.state = a.b.state])
                     /\ UNCHANGED f_waiters
                ELSE /\ f_waiters' = Append(f_waiters, t)
                     /\ f_pc' = [f_pc EXCEPT ![t] = "waiting"]
                     /\ UNCHANGED <<f_sem, f_starts>>
        /\ UNCHANGED f_now

\* The first waiter is woken with a slot free: it takes the slot and _call
\* starts.
FetchSlotGranted(t) ==
    /\ f_pc[t] = "waiting"
    /\ f_waiters # <<>> /\ Head(f_waiters) = t
    /\ f_sem > 0
    /\ f_sem' = f_sem - 1
    /\ f_waiters' = Tail(f_waiters)
    /\ f_pc' = [f_pc EXCEPT ![t] = "running"]
    /\ f_starts' = Append(f_starts, FetchStart(t))
    /\ UNCHANGED <<f_breaker, f_now>>

\* _call returns or raises: the slot is released and the breaker records the
\* outcome, with no suspension in between.
FetchEnds(t, failed) ==
    /\ f_pc[t] = "running"
    /\ f_sem' = f_sem + 1
    /\ f_breaker' = IF failed THEN record_failure(f_breaker, f_now)
                    ELSE record_success(f_breaker)
    /\ f_pc' = [f_pc EXCEPT ![t] = IF failed THEN "raised" ELSE "returned"]
    /\ UNCHANGED <<f_waiters, f_now, f_starts>>

FetchTick ==
    /\ f_now < MaxTime
    /\ f_now' = f_now + 1
    /\ UNCHANGED <<f_breaker, f_sem, f_waiters, f_pc, f_starts>>

(***************************************************************************)
(* agents/orchestrator/agent.py: _run_parallel and the ambient context      *)
(* (asyncio.gather wraps each coroutine in a Task; a Task runs in a copy of *)
(* the Context current when it is created, so a ContextVar set inside a     *)
(* task is set in that task's copy)                                         *)
(***************************************************************************)
NumChildren == 2
MaxObservations == 2

Children == 1..NumChildren

\* The orchestrator's own task.
OrchTask == 0

\* The span ids of the children's derived contexts, f"{label}-{position}".
ChildContexts == <<"A-0", "B-1", "C-2", "D-3">>

\* One Context shared by every task.
task_context_shared(t) == OrchTask

\* The Context a task's ContextVar operations act on: its own copy.
task_context(t) == t

FanoutConfigured(orch) ==
    /\ x_orch = orch
    /\ x_pc = "before"
    /\ x_cvar = [t \in {OrchTask} \cup Children |-> IF t = OrchTask THEN orch ELSE NoContext]
    /\ x_child = [t \in Children |-> "none"]
    /\ x_token = [t \in Children |-> NoContext]
    /\ x_seen = [t \in Children |-> <<>>]

\* The orchestrator runs inside its own execute, which bound its context.
FanoutInit == \E orch \in Contexts : FanoutConfigured(orch)

FanoutIdle == FanoutConfigured("ctxA")

\* asyncio.gather(*coroutines): one Task per child, each with a copy of the
\* orchestrator's Context.
Fanout ==
    /\ x_pc = "before"
    /\ x_pc' = "gathering"
    /\ x_cvar' = [t \in {OrchTask} \cup Children |-> x_cvar[OrchTask]]
    /\ x_child' = [t \in Children |-> "created"]
    /\ UNCHANGED <<x_orch, x_token, x_seen>>

\* The child's execute enters `async with AgentContextManager(context)`.
ChildEnter(t) ==
    LET bound == cv_set(x_cvar[task_context(t)], ChildContexts[t])
    IN  /\ x_child[t] = "created"
        /\ x_child' = [x_child EXCEPT ![t] = "entered"]
        /\ x_cvar' = [x_cvar EXCEPT ![task_context(t)] = bound.current]
        /\ x_token' = [x_token EXCEPT ![t] = bound.token]
        /\ UNCHANGED <<x_orch, x_pc, x_seen>>

\* Code of the child's run reads current_agent_context().
ChildObserve(t) ==
    /\ x_child[t] = "entered"
    /\ Len(x_seen[t]) < MaxObservations
    /\ x_seen' = [x_seen EXCEPT ![t] = Append(@, x_cvar[task_context(t)])]
    /\ UNCHANGED <<x_orch, x_pc, x_cvar, x_child, x_token>>

\* The child's execute leaves the block, by return or by an exception.
ChildExit(t) ==
    /\ x_child[t] = "entered"
    /\ x_child' = [x_child EXCEPT ![t] = "exited"]
    /\ x_cvar' = [x_cvar EXCEPT ![task_context(t)] = cv_reset(@, x_token[t])]
    /\ UNCHANGED <<x_orch, x_pc, x_token, x_seen>>

\* gather returns to _run_parallel.
FanoutJoined ==
    /\ x_pc = "gathering"
    /\ \A t \in Children : x_child[t] = "exited"
    /\ x_pc' = "after"
    /\ UNCHANGED <<x_orch, x_cvar, x_child, x_token, x_seen>>

(***************************************************************************)
(* Specifications, one per component.                                      *)
(***************************************************************************)
nonRetryVars == <<breakerVars, stageBreakerVars, bulkheadVars, orchVars, hitlVars, agentVars, e2eVars, contextVars, treeVars, pipeVars, queueVars, fetcherVars, fanoutVars>>
nonBreakerVars == <<retryVars, stageBreakerVars, bulkheadVars, orchVars, hitlVars, agentVars, e2eVars, contextVars, treeVars, pipeVars, queueVars, fetcherVars, fanoutVars>>
nonStageBreakerVars == <<retryVars, breakerVars, bulkheadVars, orchVars, hitlVars, agentVars, e2eVars, contextVars, treeVars, pipeVars, queueVars, fetcherVars, fanoutVars>>
nonBulkheadVars == <<retryVars, breakerVars, stageBreakerVars, orchVars, hitlVars, agentVars, e2eVars, contextVars, treeVars, pipeVars, queueVars, fetcherVars, fanoutVars>>
nonOrchVars == <<retryVars, breakerVars, stageBreakerVars, bulkheadVars, hitlVars, agentVars, e2eVars, contextVars, treeVars, pipeVars, queueVars, fetcherVars, fanoutVars>>
nonHitlVars == <<retryVars, breakerVars, stageBreakerVars, bulkheadVars, orchVars, agentVars, e2eVars, contextVars, treeVars, pipeVars, queueVars, fetcherVars, fanoutVars>>

InitRetry == RetryInit /\ BreakerIdle /\ StageBreakerIdle /\ BulkheadIdle /\ OrchIdle /\ HITLIdle /\ AgentIdle /\ E2EIdle /\ ContextIdle /\ TreeIdle /\ PipelineIdle /\ QueueIdle /\ FetcherIdle /\ FanoutIdle

NextRetry ==
    \/ retry_async /\ UNCHANGED nonRetryVars
    \/ retry_sync /\ UNCHANGED nonRetryVars

SpecRetry == InitRetry /\ [][NextRetry]_vars

InitBreaker == BreakerInit /\ RetryIdle /\ StageBreakerIdle /\ BulkheadIdle /\ OrchIdle /\ HITLIdle /\ AgentIdle /\ E2EIdle /\ ContextIdle /\ TreeIdle /\ PipelineIdle /\ QueueIdle /\ FetcherIdle /\ FanoutIdle

NextBreaker ==
    \/ UNCHANGED nonBreakerVars /\ \E t \in Tasks : RunAllow(t)
    \/ UNCHANGED nonBreakerVars /\ \E t \in Tasks : RunOpReturns(t)
    \/ UNCHANGED nonBreakerVars /\ \E t \in Tasks : RunOpRaises(t)
    \/ UNCHANGED nonBreakerVars /\ Tick

SpecBreaker == InitBreaker /\ [][NextBreaker]_vars

InitStageBreaker == StageBreakerInit /\ RetryIdle /\ BreakerIdle /\ BulkheadIdle /\ OrchIdle /\ HITLIdle /\ AgentIdle /\ E2EIdle /\ ContextIdle /\ TreeIdle /\ PipelineIdle /\ QueueIdle /\ FetcherIdle /\ FanoutIdle

NextStageBreaker ==
    \/ UNCHANGED nonStageBreakerVars /\ StageNode("skipped")
    \/ UNCHANGED nonStageBreakerVars /\ StageNode("succeeded")
    \/ UNCHANGED nonStageBreakerVars /\ StageNode("failed")
    \/ UNCHANGED nonStageBreakerVars /\ StageTick

SpecStageBreaker == InitStageBreaker /\ [][NextStageBreaker]_vars

InitBulkhead == BulkheadInit /\ RetryIdle /\ BreakerIdle /\ StageBreakerIdle /\ OrchIdle /\ HITLIdle /\ AgentIdle /\ E2EIdle /\ ContextIdle /\ TreeIdle /\ PipelineIdle /\ QueueIdle /\ FetcherIdle /\ FanoutIdle

NextBulkhead ==
    \/ UNCHANGED nonBulkheadVars /\ \E c \in Callers : BulkheadEnter(c, "run")
    \/ UNCHANGED nonBulkheadVars /\ \E c \in Callers : BulkheadEnter(c, "slot")
    \/ UNCHANGED nonBulkheadVars /\ \E c \in Callers : BulkheadResume(c)
    \/ UNCHANGED nonBulkheadVars /\ \E c \in Callers : BulkheadExit(c)

SpecBulkhead == InitBulkhead /\ [][NextBulkhead]_vars

\* The event loop runs every woken caller, and every admitted operation terminates.
BulkheadFairness ==
    \A c \in Callers :
        /\ WF_vars(BulkheadResume(c) /\ UNCHANGED nonBulkheadVars)
        /\ WF_vars(BulkheadExit(c) /\ UNCHANGED nonBulkheadVars)

SpecBulkheadFair == InitBulkhead /\ [][NextBulkhead]_vars /\ BulkheadFairness

InitOrch == OrchInit /\ RetryIdle /\ BreakerIdle /\ StageBreakerIdle /\ BulkheadIdle /\ HITLIdle /\ AgentIdle /\ E2EIdle /\ ContextIdle /\ TreeIdle /\ PipelineIdle /\ QueueIdle /\ FetcherIdle /\ FanoutIdle

NextOrch ==
    \/ UNCHANGED nonOrchVars /\ OrchRun
    \/ UNCHANGED nonOrchVars /\ RunSequentialStep
    \/ UNCHANGED nonOrchVars /\ \E i \in 1..Len(o_steps) : ParallelChildStart(i)
    \/ UNCHANGED nonOrchVars /\ \E i \in 1..Len(o_steps) : ParallelChildFinish(i)
    \/ UNCHANGED nonOrchVars /\ GatherReturns
    \/ UNCHANGED nonOrchVars /\ GatherRaises

SpecOrch == InitOrch /\ [][NextOrch]_vars

InitHITL == HITLInit /\ RetryIdle /\ BreakerIdle /\ StageBreakerIdle /\ BulkheadIdle /\ OrchIdle /\ AgentIdle /\ E2EIdle /\ ContextIdle /\ TreeIdle /\ PipelineIdle /\ QueueIdle /\ FetcherIdle /\ FanoutIdle

NextHITL ==
    \/ UNCHANGED nonHitlVars /\ \E id \in RequestIds, task \in TaskNames : HITLSubmit(id, task)
    \/ UNCHANGED nonHitlVars /\ \E id \in RequestIds, status \in StatusArguments,
                                  resolution \in Resolutions : HITLResolve(id, status, resolution)

SpecHITL == InitHITL /\ [][NextHITL]_vars

\* The variables one execute call leaves alone: it uses the retrier and the queue.
nonAgentVars == <<breakerVars, stageBreakerVars, bulkheadVars, orchVars, e2eVars, contextVars, treeVars, pipeVars, queueVars, fetcherVars, fanoutVars>>

InitAgent ==
    /\ AgentInit /\ RetryInit /\ r_mode = "async" /\ HITLInit
    /\ BreakerIdle /\ StageBreakerIdle /\ BulkheadIdle /\ OrchIdle /\ E2EIdle
    /\ ContextIdle /\ TreeIdle
    /\ PipelineIdle
    /\ QueueIdle
    /\ FetcherIdle
    /\ FanoutIdle

NextAgent ==
    \/ UNCHANGED nonAgentVars /\ AgentBegin
    \/ UNCHANGED nonAgentVars /\ \E v \in RunValues : AgentAttemptReturns(v)
    \/ UNCHANGED nonAgentVars /\ \E e \in AgentRaisable : AgentAttemptRaises(e)
    \/ UNCHANGED nonAgentVars /\ AgentSleepDone
    \/ UNCHANGED nonAgentVars /\ AgentLoopExhausted

SpecAgent == InitAgent /\ [][NextAgent]_vars

\* The variables a workflow run leaves alone.
nonE2EVars == <<breakerVars, stageBreakerVars, bulkheadVars, contextVars, treeVars, pipeVars, queueVars, fetcherVars, fanoutVars>>

InitEndToEnd ==
    /\ E2EInit /\ AgentIdle /\ HITLInit
    /\ RetryInit /\ r_mode = "async" /\ policy \in WorkflowPolicies
    /\ BreakerIdle /\ StageBreakerIdle /\ BulkheadIdle
    /\ ContextIdle /\ TreeIdle
    /\ PipelineIdle
    /\ QueueIdle
    /\ FetcherIdle
    /\ FanoutIdle

NextEndToEnd ==
    \/ UNCHANGED nonE2EVars /\ E2ERun
    \/ UNCHANGED nonE2EVars /\ E2EDirectStep
    \/ UNCHANGED nonE2EVars /\ E2EInvoke
    \/ UNCHANGED nonE2EVars /\ E2EChildBegin
    \/ UNCHANGED nonE2EVars /\ E2EChildReturns
    \/ UNCHANGED nonE2EVars /\ E2EChildRaises
    \/ UNCHANGED nonE2EVars /\ E2EChildSleepDone
    \/ UNCHANGED nonE2EVars /\ E2EChildLoopExhausted
    \/ UNCHANGED nonE2EVars /\ E2ECollect

SpecEndToEnd == InitEndToEnd /\ [][NextEndToEnd]_vars

\* The components above, idle.
CoreIdle ==
    /\ RetryIdle /\ BreakerIdle /\ StageBreakerIdle /\ BulkheadIdle /\ OrchIdle
    /\ HITLIdle /\ AgentIdle /\ E2EIdle

coreVars == <<retryVars, breakerVars, stageBreakerVars, bulkheadVars, orchVars, hitlVars,
              agentVars, e2eVars>>

nonContextVars == <<coreVars, treeVars, pipeVars, queueVars, fetcherVars, fanoutVars>>

InitContext == ContextInit /\ CoreIdle /\ TreeIdle /\ PipelineIdle /\ QueueIdle /\ FetcherIdle /\ FanoutIdle

NextContext ==
    \/ UNCHANGED nonContextVars /\ \E ctx \in Contexts : CtxEnter(ctx)
    \/ UNCHANGED nonContextVars /\ \E path \in ExitPaths : CtxExit(path)

SpecContext == InitContext /\ [][NextContext]_vars

nonTreeVars == <<coreVars, contextVars, pipeVars, queueVars, fetcherVars, fanoutVars>>

InitTree == TreeInit /\ CoreIdle /\ ContextIdle /\ PipelineIdle /\ QueueIdle /\ FetcherIdle /\ FanoutIdle

NextTree == UNCHANGED nonTreeVars /\ \E p \in 1..Len(t_nodes), span \in StepSpans : Derive(p, span)

SpecTree == InitTree /\ [][NextTree]_vars

nonPipeVars == <<coreVars, contextVars, treeVars, queueVars, fetcherVars, fanoutVars>>

InitPipeline == PipelineInit /\ CoreIdle /\ ContextIdle /\ TreeIdle /\ QueueIdle /\ FetcherIdle /\ FanoutIdle

StageStep ==
    \/ StageRefused
    \/ StageSkipped
    \/ \E c \in Confidences : StageWorkReturns(c)
    \/ StageWorkRaises
    \/ StageNoData

NextPipeline ==
    \/ UNCHANGED nonPipeVars /\ \E data \in BOOLEAN : PipelineStart(data)
    \/ UNCHANGED nonPipeVars /\ StageRefused
    \/ UNCHANGED nonPipeVars /\ StageSkipped
    \/ UNCHANGED nonPipeVars /\ \E c \in Confidences : StageWorkReturns(c)
    \/ UNCHANGED nonPipeVars /\ StageWorkRaises
    \/ UNCHANGED nonPipeVars /\ StageNoData
    \/ UNCHANGED nonPipeVars /\ PipelineReturn
    \/ UNCHANGED nonPipeVars /\ PipelineTick

SpecPipeline == InitPipeline /\ [][NextPipeline]_vars

\* The event loop runs a started graph to its end.
PipelineFairness == WF_vars(UNCHANGED nonPipeVars /\ (StageStep \/ PipelineReturn))

SpecPipelineFair == InitPipeline /\ [][NextPipeline]_vars /\ PipelineFairness

nonQueueVars == <<retryVars, breakerVars, stageBreakerVars, bulkheadVars, orchVars, agentVars,
                  e2eVars, contextVars, treeVars, pipeVars, fetcherVars, fanoutVars>>

InitQueue ==
    /\ QueueInit /\ HITLInit
    /\ RetryIdle /\ BreakerIdle /\ StageBreakerIdle /\ BulkheadIdle /\ OrchIdle
    /\ AgentIdle /\ E2EIdle /\ ContextIdle /\ TreeIdle /\ PipelineIdle
    /\ FetcherIdle
    /\ FanoutIdle

NextQueue ==
    \/ UNCHANGED nonQueueVars /\ \E t \in QueueTasks : QueueAcquire(t)
    \/ UNCHANGED nonQueueVars /\ \E t \in QueueTasks : QueueBody(t)
    \/ UNCHANGED nonQueueVars /\ \E t \in QueueTasks : QueueRelease(t)

SpecQueue == InitQueue /\ [][NextQueue]_vars

\* The event loop runs every task that is ready.
QueueFairness ==
    \A t \in QueueTasks :
        WF_vars(UNCHANGED nonQueueVars /\ (QueueAcquire(t) \/ QueueBody(t) \/ QueueRelease(t)))

SpecQueueFair == InitQueue /\ [][NextQueue]_vars /\ QueueFairness

nonFetcherVars == <<coreVars, contextVars, treeVars, pipeVars, queueVars, fanoutVars>>

InitFetcher ==
    FetcherInit /\ CoreIdle /\ ContextIdle /\ TreeIdle /\ PipelineIdle /\ QueueIdle
    /\ FanoutIdle

NextFetcher ==
    \/ UNCHANGED nonFetcherVars /\ \E t \in Tasks : FetchAllow(t)
    \/ UNCHANGED nonFetcherVars /\ \E t \in Tasks : FetchSlotGranted(t)
    \/ UNCHANGED nonFetcherVars /\ \E t \in Tasks, failed \in BOOLEAN : FetchEnds(t, failed)
    \/ UNCHANGED nonFetcherVars /\ FetchTick

SpecFetcher == InitFetcher /\ [][NextFetcher]_vars

nonFanoutVars == <<coreVars, contextVars, treeVars, pipeVars, queueVars, fetcherVars>>

InitFanout ==
    /\ FanoutInit /\ CoreIdle /\ ContextIdle /\ TreeIdle /\ PipelineIdle /\ QueueIdle
    /\ FetcherIdle

NextFanout ==
    \/ UNCHANGED nonFanoutVars /\ Fanout
    \/ UNCHANGED nonFanoutVars /\ \E t \in Children : ChildEnter(t)
    \/ UNCHANGED nonFanoutVars /\ \E t \in Children : ChildObserve(t)
    \/ UNCHANGED nonFanoutVars /\ \E t \in Children : ChildExit(t)
    \/ UNCHANGED nonFanoutVars /\ FanoutJoined

SpecFanout == InitFanout /\ [][NextFanout]_vars

(***************************************************************************)
(* Properties.                                                             *)
(***************************************************************************)
\* Every invocation so far raised, and each error was retryable under the policy.
AlwaysRaisedRetryable ==
    /\ Len(r_raised) = r_calls
    /\ \A i \in 1..Len(r_raised) : should_retry(r_raised[i], policy)

\* C1: with attempts = N >= 1 and an operation that raises a retryable error on
\* every call, the operation is invoked exactly N times (never more, and the call
\* ends only after the N-th), with a backoff wait between consecutive attempts,
\* and the exception that escapes is the error object of the N-th invocation.
C1_ExhaustedRaisesNthError ==
    (policy.attempts >= 1 /\ AlwaysRaisedRetryable) =>
        /\ r_calls <= policy.attempts
        /\ r_pc = "raised" =>
              /\ r_calls = policy.attempts
              /\ r_escaped = r_raised[policy.attempts]
              /\ r_escaped.id = policy.attempts
              /\ Len(r_slept) = policy.attempts - 1
        /\ r_pc # "raised" => r_escaped = None

C1_Witness ==
    /\ policy.attempts >= 2
    /\ AlwaysRaisedRetryable
    /\ r_pc = "raised"
    /\ r_calls = policy.attempts
    /\ r_escaped = r_raised[r_calls]

\* The allow-list names the error's class or a base class of it, and the deny-list
\* does not: the one configuration under which a policy retries the error.
AllowListedNotDenied(error, p) ==
    /\ Mro(error.cls) \cap p.retry_exceptions # {}
    /\ Mro(error.cls) \cap p.non_retryable_exceptions = {}

\* The i-th failure ended the call: it escaped, nothing was invoked after it and
\* no backoff wait followed it.
EndedAt(i) ==
    /\ i = Len(r_raised)
    /\ r_calls = i
    /\ r_pc = "raised"
    /\ r_escaped = r_raised[i]
    /\ Len(r_slept) = i - 1

\* C2 as stated: for every RetryPolicy, an invocation that raises one of the five
\* non-retryable kinds ends the call (invoked exactly once when it is the first).
C2_Original ==
    \A i \in 1..Len(r_raised) :
        r_raised[i].cls \in NonRetryableKinds => EndedAt(i)

\* C2 (amended): for every RetryPolicy except one whose allow-list names the
\* error's class (or a base class) while its deny-list does not, an invocation
\* that raises one of the five non-retryable kinds ends the call: no further
\* invocation, no backoff wait, that error escapes; exactly one invocation when
\* it was the first to fail.
C2_NonRetryableKindEndsCall ==
    \A i \in 1..Len(r_raised) :
        (r_raised[i].cls \in NonRetryableKinds /\ ~AllowListedNotDenied(r_raised[i], policy))
            => EndedAt(i)

C2_Witness ==
    /\ policy.attempts = 3
    /\ policy.retry_exceptions = DefaultRetryExceptions
    /\ policy.non_retryable_exceptions = DefaultNonRetryable
    /\ r_pc = "raised"
    /\ r_calls = 1
    /\ r_escaped.cls = "HumanInputRequiredError"

\* ---- CircuitBreaker (market_research/resilience.py) under concurrent run() calls

\* The number of failures recorded since the last recorded success.
RECURSIVE TrailingFailures(_)
TrailingFailures(log) ==
    IF log = <<>> \/ log[Len(log)].o = "S" THEN 0
    ELSE 1 + TrailingFailures(SubSeq(log, 1, Len(log) - 1))

\* This step evaluates allow() for a new run() call; it admits when it invokes
\* coro_factory().
AllowStep == cb_calls' = cb_calls + 1
Admits == cb_ops' = cb_ops + 1
Refuses == cb_ops' = cb_ops

\* This step records an outcome.
RecordStep == Len(cb_log') = Len(cb_log) + 1
Recorded == cb_log'[Len(cb_log')].o

\* C3 as stated: the breaker is closed while fewer than failure_threshold
\* consecutive failures are recorded; once it has gone open, every allow() returns
\* false while less than recovery_timeout has elapsed since it opened, and the
\* first allow() after that returns true and makes it half-open.
C3_Original ==
    /\ [](TrailingFailures(cb_log) < breaker.failure_threshold => breaker.state = "closed")
    /\ [][(AllowStep /\ cb_tripped_at # NoTime) =>
            IF now - cb_tripped_at < breaker.recovery_timeout
            THEN Refuses
            ELSE Admits /\ breaker'.state = "half_open"]_vars

\* The stage breaker in sequential use: closed below the threshold, refusing
\* while at most recovery_timeout has elapsed since it opened (the comparison in
\* can_execute is strict), admitting and half-open after that.
StageBreakerWindow ==
    /\ [](stage_breaker.failure_count < stage_breaker.failure_threshold
            => stage_breaker.state = "closed")
    /\ [][(s6_last' # s6_last \/ stage_breaker' # stage_breaker) /\ s6_tripped_at # NoTime =>
            IF s6_now - s6_tripped_at <= stage_breaker.recovery_timeout
            THEN s6_last' = "refused" /\ stage_breaker' = stage_breaker
            ELSE s6_last' # "refused"]_vars

\* A trial call is in flight: the call whose allow() promoted the breaker from
\* open to half-open has not recorded its outcome yet.
TrialPending == \E t \in Tasks : cb_pc[t] = "in_op" /\ cb_seen[t] = "open"

\* C4 as stated: while the trial call admitted by the promoting allow() has not
\* recorded its outcome, every further allow() returns false.
C4_Original == [][(AllowStep /\ TrialPending) => Refuses]_vars

\* C5: an outcome recorded in half-open state decides the breaker: a success
\* makes it closed with failure_count 0, a failure makes it open with opened_at
\* the time of that failure, so that allow() refuses until recovery_timeout has
\* elapsed from then.
C5_HalfOpenOutcomeDecides ==
    [][(breaker.state = "half_open" /\ RecordStep) =>
        /\ Recorded = "S" =>
              /\ breaker'.state = "closed"
              /\ breaker'.failure_count = 0
        /\ Recorded = "F" =>
              /\ breaker'.state = "open"
              /\ breaker'.opened_at = now
              /\ \A d \in 0..(breaker.recovery_timeout - 1) : ~allow(breaker', now + d).ok
              /\ allow(breaker', now + breaker.recovery_timeout).ok]_vars

C5_Witness ==
    /\ \E i \in 1..Len(cb_log) : cb_log[i].was = "half_open" /\ cb_log[i].o = "F"
    /\ cb_log # <<>>
    /\ cb_log[Len(cb_log)].was = "half_open"
    /\ cb_log[Len(cb_log)].o = "S"
    /\ breaker.state = "closed"

\* C6 as stated: the state changes only closed->open (a recorded failure brings
\* failure_count to the threshold), open->half-open (allow() after
\* recovery_timeout), half-open->closed (recorded success), half-open->open
\* (recorded failure).
LegalTransition ==
    \/ /\ breaker.state = "closed" /\ breaker'.state = "open"
       /\ RecordStep /\ Recorded = "F"
       /\ breaker'.failure_count >= breaker.failure_threshold
    \/ /\ breaker.state = "open" /\ breaker'.state = "half_open"
       /\ AllowStep
       /\ now - breaker.opened_at >= breaker.recovery_timeout
    \/ /\ breaker.state = "half_open" /\ breaker'.state = "closed"
       /\ RecordStep /\ Recorded = "S"
    \/ /\ breaker.state = "half_open" /\ breaker'.state = "open"
       /\ RecordStep /\ Recorded = "F"

C6_Original == [][breaker'.state # breaker.state => LegalTransition]_vars

\* C7: run(op) refused by allow() raises the breaker's CircuitBreakerOpen without
\* invoking op and leaves failure_count, state and opened_at as they were; when
\* op raises, run records exactly one failure and raises op's own exception; when
\* op returns, run records one success and returns op's result.
C7_RunOutcomes ==
    [][/\ (AllowStep /\ ~allow(breaker, now).ok) =>
              /\ cb_ops' = cb_ops
              /\ breaker' = breaker
              /\ cb_log' = cb_log
              /\ \E t \in Tasks :
                    /\ cb_pc'[t] = "refused"
                    /\ cb_out'[t] = BreakerOpenError
                    /\ \A u \in Tasks \ {t} : cb_pc'[u] = cb_pc[u] /\ cb_out'[u] = cb_out[u]
       /\ \A t \in Tasks :
           /\ (cb_pc[t] = "in_op" /\ cb_pc'[t] # "in_op" /\ cb_op[t].kind = "raise") =>
                 /\ RecordStep /\ Recorded = "F"
                 /\ breaker'.failure_count = breaker.failure_count + 1
                 /\ cb_pc'[t] = "raised"
                 /\ cb_out'[t] = cb_op[t]
                 /\ cb_out'[t].origin = "op"
           /\ (cb_pc[t] = "in_op" /\ cb_pc'[t] # "in_op" /\ cb_op[t].kind = "return") =>
                 /\ RecordStep /\ Recorded = "S"
                 /\ breaker'.failure_count = 0
                 /\ cb_pc'[t] = "returned"
                 /\ cb_out'[t] = cb_op[t]]_vars

C7_Witness ==
    \E t, u \in Tasks :
        /\ cb_pc[t] = "refused" /\ cb_out[t] = BreakerOpenError
        /\ cb_pc[u] = "raised" /\ cb_out[u].cls = "CircuitBreakerOpen" /\ cb_out[u].origin = "op"
        /\ \E i \in 1..Len(cb_log) : cb_log[i].o = "S"

\* ---- BulkheadExecutor

Running == {c \in Callers : bh_pc[c] = "running"}
Holding == {c \in Callers : bh_pc[c] \in {"woken", "running"}}
Waiting == {c \in Callers : bh_pc[c] = "waiting"}

\* C8: at most max_concurrency operations run (or hold a slot) at any time; a
\* caller waits only while all slots are taken, so the (K+1)-th operation starts
\* only after an admitted one has finished; and no caller is dropped or rejected:
\* every call started has finished, holds a slot, or is queued in the semaphore.
C8_AtMostKRunning ==
    /\ Cardinality(Running) <= max_concurrency
    /\ Cardinality(Holding) <= max_concurrency
    /\ sem_value = max_concurrency - Cardinality(Holding)
    /\ Waiting # {} => Cardinality(Holding) = max_concurrency
    /\ \A c \in Callers : bh_pc[c] = "waiting" <=> \E i \in 1..Len(sem_waiters) : sem_waiters[i] = c
    /\ bh_runs = bh_done + Cardinality(Holding) + Cardinality(Waiting)

C8_Witness ==
    /\ max_concurrency = 2
    /\ Cardinality(Running) = 2
    /\ Waiting # {}
    /\ bh_done > 0

AllFinished == \A c \in Callers : bh_pc[c] \in {"idle", "returned", "raised"}

\* C9: the slot is released whether the operation returns or raises; so, every
\* admitted operation terminating, every waiting caller is eventually admitted,
\* and once all callers have finished all max_concurrency slots are free.
C9_SlotAlwaysReleased ==
    /\ [](AllFinished => sem_value = max_concurrency)
    /\ \A c \in Callers : (bh_pc[c] = "waiting") ~> (bh_pc[c] = "running")
    /\ [][\A c \in Callers :
            (bh_pc[c] = "running" /\ bh_pc'[c] \in {"returned", "raised"}) =>
                \/ sem_value' = sem_value + 1
                \/ \E w \in Callers : bh_pc[w] = "waiting" /\ bh_pc'[w] = "woken"]_vars

C9_Witness ==
    /\ AllFinished
    /\ bh_runs = MaxRuns
    /\ sem_value = max_concurrency
    /\ \E c \in Callers : bh_pc[c] = "raised" /\ bh_via[c] = "run"
    /\ \E c \in Callers : bh_pc[c] = "returned" /\ bh_waited[c]

\* ---- OrchestratorAgent, sequential mode

\* The steps that fail when invoked: the agent raises from execute(), or the
\* label is not registered.
Fails(kind) == kind \in {"error", "error_empty", "unregistered"}

\* The position of the first failing step, Len + 1 when no step fails.
FirstFailure(steps) ==
    IF \E i \in 1..Len(steps) : Fails(steps[i])
    THEN CHOOSE i \in 1..Len(steps) : Fails(steps[i]) /\ \A j \in 1..(i - 1) : ~Fails(steps[j])
    ELSE Len(steps) + 1

\* The steps a fail-fast run executes: up to and including the first failing one.
Executed(steps) == 1..(IF FirstFailure(steps) > Len(steps) THEN Len(steps) ELSE FirstFailure(steps))

\* C10 as stated: steps are invoked in list order, no step after the first
\* failing one is invoked, and the returned list holds exactly the entries of the
\* steps up to and including the failing one ([ok, error, ok] returns 2 entries).
C10_Original ==
    ~o_parallel =>
       /\ \A k \in 1..Len(o_invoked) : o_invoked[k] \in Executed(o_steps)
       /\ \A k \in 1..(Len(o_invoked) - 1) : o_invoked[k] < o_invoked[k + 1]
       /\ o_pc = "returned" =>
             /\ Len(o_results) = Cardinality(Executed(o_steps))
             /\ \A i \in 1..Len(o_results) : o_results[i].agent = i

\* The same for runs whose failing agents raise exceptions with a message.
SequentialStopsAtMarkedFailure ==
    (\A i \in 1..Len(o_steps) : o_steps[i] # "error_empty") => C10_Original

\* ---- OrchestratorAgent, parallel mode

\* run() has ended, by returning or by raising.
OrchEnded == o_pc \in {"returned", "raised"}

\* No step of the workflow names a class that fails while being instantiated.
NoCtorFailure == \A i \in 1..Len(o_steps) : o_steps[i] # "ctor_raises"

\* C11 as stated: in parallel mode every step's agent is invoked, run ends only
\* after every child has finished, and the result has exactly one entry per step,
\* entry i belonging to step i, whatever the steps do and in whatever order they
\* complete.
C11_Original ==
    (o_parallel /\ OrchEnded) =>
       /\ \A i \in 1..Len(o_steps) : o_child[i] = "done"
       /\ \A i \in 1..Len(o_steps) :
             o_steps[i] # "unregistered" => \E k \in 1..Len(o_invoked) : o_invoked[k] = i
       /\ Len(o_results) = Len(o_steps)
       /\ \A i \in 1..Len(o_results) : o_results[i].agent = i

\* The same for workflows whose agent classes can all be instantiated.
ParallelKeepsInputOrder == NoCtorFailure => C11_Original

\* ---- OrchestratorAgent, both modes

\* C12 as stated: run never raises because a child failed; a child that fails
\* while being instantiated or while executing, and a label that is not
\* registered, each yield an entry {agent, error} and run returns normally.
C12_Original ==
    /\ o_pc # "raised"
    /\ o_pc = "returned" =>
          \A k \in 1..Len(o_results) :
             LET kind == o_steps[o_results[k].agent]
             IN  (Fails(kind) \/ kind = "ctor_raises") => o_results[k].error # Absent

\* The same for workflows whose agent classes can all be instantiated.
FailuresBecomeEntries == NoCtorFailure => C12_Original

\* ---- InMemoryHITLQueue

\* The step is a call of resolve().
ResolveStep == h_now' # h_now /\ h_last'.op = "resolve"

\* C14: resolve(id, status, resolution) of an id that is not stored raises
\* KeyError and leaves every stored request as it was; of a stored id it sets that
\* request's status and resolution to the arguments and its resolved_at to a
\* time, and changes no other stored request.
C14_ResolveUnknownOrKnown ==
    [][ResolveStep =>
          LET id == h_last'.id
          IN  IF id \notin DOMAIN h_requests
              THEN h_last'.raised = "KeyError" /\ h_requests' = h_requests
              ELSE /\ h_last'.raised = "none"
                   /\ DOMAIN h_requests' = DOMAIN h_requests
                   /\ h_requests'[id].status = h_last'.status
                   /\ h_requests'[id].resolution = h_last'.resolution
                   /\ h_requests'[id].resolved_at # NoTime
                   /\ \A k \in DOMAIN h_requests : k # id => h_requests'[k] = h_requests[k]]_vars

\* A stored request was resolved to approved while another stored request
\* stayed pending.
C14_Witness ==
    /\ h_last.op = "resolve"
    /\ h_last.raised = "none"
    /\ h_last.status = HITL_APPROVED
    /\ h_requests[h_last.id].status = HITL_APPROVED
    /\ h_requests[h_last.id].resolved_at # NoTime
    /\ \E k \in DOMAIN h_requests : k # h_last.id /\ h_requests[k].status = HITL_PENDING

TerminalStatuses == {HITL_APPROVED, HITL_REJECTED, HITL_CANCELLED}

\* C15 as stated: a stored request whose status is terminal never changes status
\* again (and so never returns to pending), whatever submit and resolve calls
\* follow.
C15_Original ==
    [][\A id \in DOMAIN h_requests :
          h_requests[id].status \in TerminalStatuses =>
             /\ id \in DOMAIN h_requests'
             /\ h_requests'[id].status = h_requests[id].status]_vars

\* C16 as stated: in every reachable state each stored request has resolved_at
\* set if and only if its status is not pending.
C16_Original ==
    \A id \in DOMAIN h_requests :
        (h_requests[id].resolved_at # NoTime) <=> (h_requests[id].status # HITL_PENDING)

\* ---- BaseAgent.execute

IsHumanInputRequired(error) == IsInstance(error, {"HumanInputRequiredError"})

\* C17: when the error of run that leaves the retrier is a HumanInputRequired
\* error, execute ends by raising that same error, and by then the configured
\* queue stores a request with the input's request_id, the agent's name as
\* task_name and status pending; with no queue configured nothing is enqueued and
\* the same error is raised. An error the policy does not retry always leaves.
C17_HitlEnqueuedBeforeReraise ==
    /\ (r_raised # <<>> /\ IsHumanInputRequired(r_raised[Len(r_raised)])
          /\ ~should_retry(r_raised[Len(r_raised)], policy)) =>
             a_pc = "raised" /\ r_escaped = r_raised[Len(r_raised)]
    /\ (a_pc = "raised" /\ IsHumanInputRequired(r_escaped)) =>
          /\ a_error = r_escaped
          /\ IF a_queue = "memory"
             THEN /\ a_request_id \in DOMAIN h_requests
                  /\ h_requests[a_request_id].request_id = a_request_id
                  /\ h_requests[a_request_id].task_name = a_name
                  /\ h_requests[a_request_id].status = HITL_PENDING
                  /\ DOMAIN h_requests = {a_request_id}
             ELSE h_requests = << >>

\* A human-input error left execute of agent "AgentB" for request 2 after a
\* retried attempt, and the queue holds the request.
C17_Witness ==
    /\ a_pc = "raised"
    /\ a_queue = "memory"
    /\ a_name = "AgentB"
    /\ a_request_id = 2
    /\ r_calls = 2
    /\ IsHumanInputRequired(a_error)
    /\ 2 \in DOMAIN h_requests

\* C18: a failure the retrier lets out is passed to capture_exception exactly
\* once in the whole execute call (never once per attempt) and execute raises
\* it; execute returns normally only when the last attempt's run returned.
C18_FailureCapturedOnceAndRaised ==
    /\ Len(a_captured) <= 1
    /\ a_pc = "retrying" => a_captured = <<>>
    /\ r_pc = "raised" =>
          /\ a_pc = "raised"
          /\ a_captured = <<a_error>>
          /\ a_error # None
          /\ a_result = NoValue
    /\ a_pc = "returned" => (r_pc = "returned" /\ a_captured = <<>> /\ a_error = None)

\* Three attempts failed and the last error was reported once and raised.
C18_Witness ==
    /\ a_pc = "raised"
    /\ r_calls = 3
    /\ Len(r_raised) = 3
    /\ Len(a_captured) = 1
    /\ a_error = r_raised[3]

\* C19 as stated: every exception that leaves execute, for any input payload and
\* any behaviour of run, is an AgentError.
C19_Original == a_pc = "raised" => IsInstance(a_error, {"AgentError"})

\* The same for the payloads AgentInput.coerce accepts; an exception of run from
\* outside the taxonomy leaves as a plain AgentError with retryable = false.
RunFailuresLeaveAsAgentError ==
    (a_payload \in AcceptedPayloads /\ a_pc = "raised") =>
        /\ IsInstance(a_error, {"AgentError"})
        /\ ~IsInstance(r_escaped, {"AgentError"}) =>
              (a_error.cls = "AgentError" /\ ~a_error.retryable)

RECURSIVE Count(_, _)
Count(events, name) ==
    IF events = <<>> THEN 0
    ELSE (IF Head(events) = name THEN 1 ELSE 0) + Count(Tail(events), name)

\* C20: an execute call whose payload is accepted emits 'agent.start' exactly
\* once, before the first invocation of run; it emits 'agent.success' exactly once
\* when it returns and never otherwise (no attempt that failed emits it), and what
\* it returns is what the successful invocation of run returned.
C20_StartOnceSuccessOnce ==
    /\ Count(a_events, "agent.start") <= 1
    /\ (a_payload \in AcceptedPayloads /\ a_pc # "start") =>
          (Count(a_events, "agent.start") = 1 /\ a_events[1] = "agent.start")
    /\ r_calls > 0 => Count(a_events, "agent.start") = 1
    /\ a_pc = "returned" =>
          /\ Count(a_events, "agent.success") = 1
          /\ a_result = a_value
          /\ a_result \in RunValues
    /\ a_pc # "returned" => Count(a_events, "agent.success") = 0

\* The call returned "out2" from its third attempt, after two retried failures.
C20_Witness ==
    /\ a_pc = "returned"
    /\ r_calls = 3
    /\ Len(r_raised) = 2
    /\ a_result = "out2"
    /\ a_events = <<"agent.start", "agent.success">>

\* ---- A sequential workflow end to end

\* The workflow of the scenario: three registered steps, the second one's run()
\* raising a RetryableAgentError at its first invocation and returning at its
\* second, run with a policy of three attempts.
FlakySecondStep ==
    /\ o_steps = <<"executes", "executes", "executes">>
    /\ e_scripts = <<<<"ok">>, <<"RetryableAgentError", "ok">>, <<"ok">>>>
    /\ policy.attempts = 3

\* C13: in that scenario the steps are executed in order 1, 2, 3, run does not
\* raise, and when it has returned step 2's run() was invoked exactly twice (the
\* others once) and the result has three entries in order, each with an output
\* and none with an error.
C13_RetriedStepCompletesWorkflow ==
    FlakySecondStep =>
       /\ o_pc # "raised"
       /\ \A k \in 1..Len(o_invoked) : o_invoked[k] = k
       /\ o_pc = "returned" =>
             /\ o_invoked = <<1, 2, 3>>
             /\ e_calls = <<1, 2, 1>>
             /\ Len(o_results) = 3
             /\ \A i \in 1..3 : /\ o_results[i].agent = i
                                 /\ o_results[i].output # Absent
                                 /\ o_results[i].error = Absent

\* The scenario ran to its end.
C13_Witness ==
    /\ FlakySecondStep
    /\ o_pc = "returned"
    /\ e_calls = <<1, 2, 1>>
    /\ Len(o_results) = 3
    /\ o_results[2].output # Absent

\* ---- retry classification

\* The policy has the allow-list and deny-list RetryPolicy() defaults to.
HasDefaultLists(p) ==
    /\ p.retry_exceptions = DefaultRetryExceptions
    /\ p.non_retryable_exceptions = DefaultNonRetryable

\* The i-th failure was followed by another attempt, or the backoff wait before
\* that attempt is under way.
RetriedAfter(i) == r_calls > i \/ r_pc \in {"sleeping", "calling"}

\* C21 as stated: under the default policy with attempts >= 2, a failure with a
\* RateLimit error, or with an ExternalService error built as retryable, is
\* retried (as long as attempts remain), as a RetryableAgentError failure is.
C21_Original ==
    (HasDefaultLists(policy) /\ policy.attempts >= 2) =>
        \A i \in 1..Len(r_raised) :
            (/\ i < policy.attempts
             /\ \/ r_raised[i].cls \in {"RateLimitError", "RetryableAgentError"}
                \/ r_raised[i].cls = "ExternalServiceError" /\ r_raised[i].retryable)
                => RetriedAfter(i)

\* The part of it that holds: a RetryableAgentError failure is retried.
RetryableAgentErrorIsRetried ==
    (HasDefaultLists(policy) /\ policy.attempts >= 2) =>
        \A i \in 1..Len(r_raised) :
            (i < policy.attempts /\ r_raised[i].cls = "RetryableAgentError") => RetriedAfter(i)

\* C30: an error that is an instance of a class on the allow-list and of a class
\* on the deny-list is never retried: the invocation that raised it is the last
\* one (the only one when it was the first), no backoff wait follows and the
\* error is raised.
C30_DenyListWins ==
    \A i \in 1..Len(r_raised) :
        (/\ IsInstance(r_raised[i], policy.retry_exceptions)
         /\ IsInstance(r_raised[i], policy.non_retryable_exceptions))
            => (EndedAt(i) /\ (i = 1 => r_calls = 1))

\* A first failure matching both lists ended a call that had attempts left.
C30_Witness ==
    /\ policy.attempts >= 2
    /\ r_calls = 1
    /\ r_pc = "raised"
    /\ r_raised # <<>>
    /\ IsInstance(r_raised[1], policy.retry_exceptions)
    /\ IsInstance(r_raised[1], policy.non_retryable_exceptions)
    /\ r_escaped = r_raised[1]
    /\ r_slept = <<>>

\* ---- AgentContextManager

\* C22: inside a scope the ambient context is the context the (innermost) scope
\* bound, and every exit, through return, HumanInputRequired or any other
\* exception, restores the value from before the entry: the outer scope's context
\* when scopes are nested, what was there before the first scope (None when
\* nothing was bound) otherwise.
C22_ContextBoundAndRestored ==
    c_current = IF c_stack = <<>> THEN c_outer ELSE c_stack[Len(c_stack)].context

\* A nested scope was left through an exception and the outer scope's context,
\* different from the one just unbound, is current again.
C22_Witness ==
    /\ c_last = "HumanInputRequiredError"
    /\ Len(c_stack) = 1
    /\ c_stack[1].context = "ctxB"
    /\ c_current = "ctxB"
    /\ c_outer = NoContext

\* ---- AgentContext.child

\* C23: every derived context carries the root's request_id, and as
\* parent_span_id its parent's span_id, or the parent's own parent_span_id when
\* the parent has no span_id (None or empty); deriving a child changes no field
\* of any existing context.
C23_ChildKeepsRequestAndLinksSpan ==
    /\ [](\A k \in 1..Len(t_nodes) :
             /\ t_nodes[k].ctx.request_id = t_nodes[1].ctx.request_id
             /\ t_nodes[k].parent # 0 =>
                   LET parent == t_nodes[t_nodes[k].parent].ctx
                   IN  t_nodes[k].ctx.parent_span_id =
                          (IF parent.span_id \in {NoSpan, ""}
                           THEN parent.parent_span_id ELSE parent.span_id))
    /\ [][\A k \in 1..Len(t_nodes) : t_nodes'[k] = t_nodes[k]]_vars

\* A chain root -> child -> grandchild from a root without span_id: the child
\* points to the root's parent_span_id, the grandchild to the child's span_id.
C23_Witness ==
    /\ Len(t_nodes) >= 3
    /\ t_nodes[1].ctx.span_id = NoSpan
    /\ t_nodes[1].ctx.parent_span_id = "up"
    /\ t_nodes[2].parent = 1
    /\ t_nodes[2].ctx.parent_span_id = "up"
    /\ t_nodes[3].parent = 2
    /\ t_nodes[3].ctx.parent_span_id = t_nodes[2].ctx.span_id

\* ---- graphs/switch6_graph.py ----

Visited(i) == p_outcomes[Stages[i]] # "none"

Invocations(stage) == Cardinality({k \in 1..Len(p_invoked) : p_invoked[k] = stage})

\* The nodes run in chain order, each at most once per run, and the run
\* returns only after the last one.
VisitedInChainOrder ==
    /\ \A i \in 1..Len(Stages) : Visited(i) <=> i < p_next
    /\ p_pc = "returned" => \A i \in 1..Len(Stages) : Visited(i)

\* A visited stage that follows a visited stage that is not valid did no work.
NoWorkAfterInvalid ==
    \A j, i \in 1..Len(Stages) :
        (j < i /\ Visited(j) /\ ~p_valid[Stages[j]] /\ Visited(i)) =>
            /\ Invocations(Stages[i]) = 0
            /\ p_results[Stages[i]] = NoResult
            /\ ~p_valid[Stages[i]]

\* C24: if a stage does not end valid, every later stage of the chain is
\* still visited, but its work function is never invoked, it produces no
\* result and does not become valid, and the run still terminates after the
\* last stage.
C24_LaterStagesVisitedWithoutWork ==
    /\ []VisitedInChainOrder
    /\ []NoWorkAfterInvalid
    /\ (p_pc = "running" ~> p_pc = "returned")

\* A run has returned in which wound's work failed after segment succeeded,
\* and reframe, offer, action and cash were skipped.
C24_Witness ==
    /\ p_pc = "returned"
    /\ p_outcomes["segment"] = "succeeded"
    /\ p_outcomes["wound"] = "failed"
    /\ \A s \in {"reframe", "offer", "action", "cash"} : p_outcomes[s] = "skipped"

HasErrorFor(errors, stage) == \E k \in 1..Len(errors) : errors[k].stage = stage

\* C25 as stated: a run in which a stage's work fails returns
\* execution_complete = false and an errors list with an entry for the
\* failed stage.
C25_Original ==
    \A s \in StageNames :
        (p_pc = "returned" /\ p_outcomes[s] = "failed") =>
            /\ ~p_result.execution_complete
            /\ HasErrorFor(p_result.errors, s)

RECURSIVE ConfidenceSum(_)
\* The stages' confidences added up over the first n stages, 0 for a stage
\* without a result.
ConfidenceSum(n) ==
    IF n = 0 THEN 0
    ELSE ConfidenceSum(n - 1)
         + (IF p_results[Stages[n]] = NoResult THEN 0
            ELSE p_results[Stages[n]].research_confidence)

\* C26 as stated: the result of every run carries a completion score equal
\* to the mean over all stages of each stage's confidence, 0 for a skipped
\* or errored stage.
C26_Original ==
    p_pc = "returned" =>
        /\ p_result.framework_completion_score # NoScore
        /\ Len(Stages) * p_result.framework_completion_score = ConfidenceSum(Len(Stages))

\* A run has returned with business data given, no breaker refusing and no
\* work function raising.
AllWorkSucceeded ==
    /\ p_pc = "returned"
    /\ p_data
    /\ \A s \in StageNames : p_outcomes[s] \notin {"refused", "failed"}

\* C27: when every stage's work succeeds, each of the six work functions is
\* invoked exactly once, in the order segment, wound, reframe, offer, action,
\* cash, every stage ends valid with its own result recorded, the errors
\* list is empty and the run ends with execution_complete = true.
C27_AllSucceedRunsEachStageOnce ==
    AllWorkSucceeded =>
        /\ p_invoked = Stages
        /\ \A s \in StageNames :
              /\ p_valid[s]
              /\ p_results[s] # NoResult
              /\ p_result.stages[s] = p_results[s]
        /\ p_result.errors = <<>>
        /\ p_result.execution_complete

\* The second run on the same dependencies succeeds in every stage after the
\* first run failed in one.
C27_Witness ==
    /\ AllWorkSucceeded
    /\ p_runs = 2
    /\ \E s \in StageNames : p_deps[s].last_failure_time # NoTime

\* C28 as stated: a stage starts only once its predecessor is valid, skipped,
\* or invalid with a recorded error.
C28_Original ==
    \A i \in 2..Len(Stages) :
        Visited(i) =>
            \/ p_valid[Stages[i - 1]]
            \/ p_outcomes[Stages[i - 1]] = "skipped"
            \/ HasErrorFor(p_errors, Stages[i - 1])

\* C29: when a stage's own breaker refuses, the stage's work function is not
\* invoked, an error entry naming that stage is appended to the run's errors,
\* the stage does not become valid, and no other stage's breaker is changed.
C29_RefusedStageRecordsError ==
    [][\A s \in StageNames :
          (p_outcomes[s] = "none" /\ p_outcomes'[s] = "refused") =>
              /\ p_deps[s].state = "open"
              /\ p_invoked' = p_invoked
              /\ Len(p_errors') = Len(p_errors) + 1
              /\ SubSeq(p_errors', 1, Len(p_errors)) = p_errors
              /\ p_errors'[Len(p_errors')].stage = s
              /\ ~p_valid'[s]
              /\ \A o \in StageNames \ {s} : p_deps'[o] = p_deps[o]]_vars

\* The breaker of wound refused in a run whose segment stage had succeeded.
C29_Witness ==
    /\ p_outcomes["segment"] = "succeeded"
    /\ p_outcomes["wound"] = "refused"
    /\ HasErrorFor(p_errors, "wound")

\* C31 as stated: when the policy has no allow-list, every failure whose kind
\* is not on the deny-list is retried (as long as attempts remain).
C31_Original ==
    policy.retry_exceptions = {} =>
        \A i \in 1..Len(r_raised) :
            (/\ i < policy.attempts
             /\ ~IsInstance(r_raised[i], policy.non_retryable_exceptions))
                => RetriedAfter(i)

\* The part of it that holds: without an allow-list, an AgentError whose
\* retryable flag is set and whose kind is not on the deny-list is retried.
FlaggedAgentErrorIsRetried ==
    policy.retry_exceptions = {} =>
        \A i \in 1..Len(r_raised) :
            (/\ i < policy.attempts
             /\ ~IsInstance(r_raised[i], policy.non_retryable_exceptions)
             /\ IsInstance(r_raised[i], {"AgentError"})
             /\ r_raised[i].retryable)
                => RetriedAfter(i)

\* C32 as stated: under the default policy a failure with a timeout error is
\* retried like any retryable failure (as long as attempts remain).
C32_Original ==
    (HasDefaultLists(policy) /\ policy.attempts >= 2) =>
        \A i \in 1..Len(r_raised) :
            (i < policy.attempts /\ r_raised[i].cls = "TimeoutError") => RetriedAfter(i)

\* ---- concurrent reports to a shared breaker

\* C33: under any interleaving of concurrent run() calls on one breaker no
\* success or failure report is lost or counted twice: failure_count equals
\* the number of failures recorded since the most recent recorded success.
C33_EveryReportCountedOnce == breaker.failure_count = TrailingFailures(cb_log)

\* Two run() calls were admitted while the breaker was closed, both were in
\* flight together and both have reported a failure.
C33_Witness ==
    /\ \A t \in Tasks : cb_seen[t] = "closed" /\ cb_pc[t] = "raised"
    /\ cb_calls = NumTasks
    /\ Len(cb_log) = NumTasks
    /\ breaker.failure_count = NumTasks

\* ---- InMemoryHITLQueue: resubmission

\* The step is a call of submit().
SubmitStep == h_now' # h_now /\ h_last'.op = "submit"

\* C34: submit with a request_id that is already stored, whatever the status of
\* the stored request, is not rejected and replaces the stored entry with the
\* new request: the earlier status, resolution and resolved_at are gone, and no
\* other stored request changes.
C34_ResubmitReplacesStoredEntry ==
    [][(SubmitStep /\ h_last'.id \in DOMAIN h_requests) =>
          LET id == h_last'.id
          IN  /\ h_last'.raised = "none"
              /\ DOMAIN h_requests' = DOMAIN h_requests
              /\ h_requests'[id].created_at = h_now
              /\ h_requests'[id].status = HITL_PENDING
              /\ h_requests'[id].resolution = NoResolution
              /\ h_requests'[id].resolved_at = NoTime
              /\ \A k \in DOMAIN h_requests : k # id => h_requests'[k] = h_requests[k]]_vars

\* A request that had been resolved to a terminal status was submitted again and
\* is stored as pending and unresolved.
C34_Witness ==
    /\ h_last.op = "submit"
    /\ h_last.replaced \in TerminalStatuses
    /\ h_requests[h_last.id].status = HITL_PENDING
    /\ h_requests[h_last.id].resolved_at = NoTime

\* ---- InMemoryHITLQueue: the lock

\* The tasks inside a block guarded by the lock.
InCriticalSection == {t \in QueueTasks : q_pc[t] \in {"locked", "leaving"}}

\* At most one task is inside a critical section, and it holds the lock.
QueueMutualExclusion ==
    /\ Cardinality(InCriticalSection) <= 1
    /\ \A t \in InCriticalSection : q_lock = t

\* Whenever no task is running (every task is at a suspension point, has ended
\* or has not started) the lock is free; in particular it is free after a
\* resolve that raised KeyError.
LockFreeAtSuspension ==
    /\ q_running = NoTask => q_lock = NoTask
    /\ \A t \in QueueTasks : q_pc[t] = "done" => q_lock # t

RECURSIVE Replay(_)
\* The calls of the first n tasks of q_order made one after the other on an
\* empty queue: the stored requests, and what each call gives its caller.
Replay(n) ==
    IF n = 0 THEN [requests |-> << >>, out |-> [t \in QueueTasks |-> NoOutcome]]
    ELSE LET before == Replay(n - 1)
             t == q_order[n]
             r == critical_section(before.requests, q_call[t], n - 1)
         IN  [requests |-> r.requests, out |-> [before.out EXCEPT ![t] = r.out]]

\* The combined effect of the calls is that of the sequential order q_order.
QueueSerializable ==
    /\ h_requests = Replay(Len(q_order)).requests
    /\ \A t \in QueueTasks : q_out[t] = Replay(Len(q_order)).out[t]

\* C35: submit, resolve and get are mutually exclusive per queue, the lock is
\* held across no suspension point and is released on every path, also when
\* resolve fails on an unknown id; so concurrent calls all complete and their
\* combined effect is that of some sequential order of the calls.
C35_QueueCallsSerialized ==
    /\ []QueueMutualExclusion
    /\ []LockFreeAtSuspension
    /\ []QueueSerializable
    /\ \A t \in QueueTasks : (q_pc[t] # "idle" ~> q_pc[t] = "done")

\* Two concurrent calls have both ended, one of them a resolve that raised
\* KeyError, the other a submit of the same id that ran after it.
C35_Witness ==
    /\ \A t \in QueueTasks : q_pc[t] = "done"
    /\ \E t, u \in QueueTasks :
          /\ q_order = <<t, u>>
          /\ q_call[t].op = "resolve" /\ q_out[t].kind = "KeyError"
          /\ q_call[u].op = "submit" /\ q_call[u].id = q_call[t].id
    /\ q_lock = NoTask

\* ---- RequestsFetcher: breaker around bulkhead

\* C36 as stated: once the shared breaker has opened, no guarded operation
\* starts executing until recovery_timeout has elapsed, also not one that
\* passed allow() while the breaker was closed and then waited for a slot.
C36_Original ==
    \A k \in 1..Len(f_starts) :
        ~(/\ f_starts[k].state = "open"
          /\ f_starts[k].at - f_starts[k].opened_at < f_breaker.recovery_timeout)

\* The part of it that holds: a call whose allow() is evaluated while the
\* breaker is open and the timeout has not elapsed is refused.
RefusedWhileOpen ==
    [][\A t \in Tasks :
          (/\ f_pc[t] = "idle" /\ f_pc'[t] # "idle"
           /\ f_breaker.state = "open"
           /\ f_now - f_breaker.opened_at < f_breaker.recovery_timeout)
              => f_pc'[t] = "refused"]_vars

\* ---- the ambient context during parallel orchestration

\* C37: during parallel orchestration the ambient context inside each child's
\* run is that child's own derived context for the whole of its execution,
\* never a sibling's, whatever the interleaving; and the orchestrator's own
\* ambient context stays, and is after the fan-out, the one it had before.
C37_ChildrenSeeOwnContext ==
    /\ \A t \in Children :
          /\ \A k \in 1..Len(x_seen[t]) : x_seen[t][k] = ChildContexts[t]
          /\ x_child[t] = "entered" => x_cvar[task_context(t)] = ChildContexts[t]
    /\ x_cvar[OrchTask] = x_orch

\* The fan-out has completed after every child read the ambient context
\* MaxObservations times.
C37_Witness ==
    /\ x_pc = "after"
    /\ \A t \in Children : Len(x_seen[t]) = MaxObservations

\* Every child is inside its run at the same time and has read the ambient
\* context.
ChildrenOverlap == \A t \in Children : x_child[t] = "entered" /\ x_seen[t] # <<>>

\* ---- the switch6 graph: one execution per node

\* C38: in one run of the graph each stage node executes exactly once (the
\* node pointer only moves forward along the chain, one node at a time), so
\* each stage's work function is invoked at most once per run and each
\* stage's retry counter never exceeds 1 during that run.
C38_EachNodeOncePerRun ==
    /\ [](\A i \in 1..Len(Stages) :
             /\ Visited(i) <=> i < p_next
             /\ Invocations(Stages[i]) <= 1
             /\ p_retry_count[Stages[i]] <= 1)
    /\ [](p_pc = "returned" => p_next = Len(Stages) + 1)
    /\ [][p_runs' = p_runs =>
            /\ p_next' \in {p_next, p_next + 1}
            /\ \A s \in StageNames : p_outcomes[s] # "none" => p_outcomes'[s] = p_outcomes[s]]_vars

\* A run has returned in which the work of one stage was invoked once and
\* failed, leaving that stage's retry counter at 1.
C38_Witness ==
    /\ p_pc = "returned"
    /\ \E s \in StageNames :
          /\ p_outcomes[s] = "failed"
          /\ Invocations(s) = 1
          /\ p_retry_count[s] = 1

====
